---------------------------- MODULE Spec2Model ----------------------------
(***************************************************************************)
(* A model of the fileverse-cryptography hybrid-encryption layer: the      *)
(* ECIES scheme (ecies/core), the RSA envelope scheme (webcrypto/envelope  *)
(* and webcrypto/core) and the secret box (nacl/core), with the encoding   *)
(* layer (utils/encoding) they share.                                      *)
(*                                                                         *)
(* Bytes are integers 0..255 and byte arrays are sequences of them.        *)
(* JavaScript strings are sequences of one-character strings.  A function  *)
(* that may throw returns a record [err, val]: err = "" means it returned  *)
(* val, anything else is the message of the Error it threw.                *)
(*                                                                         *)
(* The primitives of the external libraries (secp256k1, HKDF-SHA256,       *)
(* AES-GCM, RSA-OAEP, XSalsa20-Poly1305, base64) are replaced by small     *)
(* deterministic stand-ins with the same interface, the same framing and   *)
(* the same failure conditions.  base64 is modelled exactly.               *)
(***************************************************************************)
EXTENDS Integers, Sequences, FiniteSets, TLC

(***************************************************************************)
(* Bounds of the model.                                                    *)
(***************************************************************************)
\* longest message handed to an encrypt operation
MaxMsgLen == 2
\* seeds the random generator may return for a key: 1..MaxScalar
MaxScalar == 2
\* seeds the random generator may return for a nonce
MaxNonceSeed == 1
\* tokens an arbitrary (hand-built) input string is made of, at most
MaxTokens == 7

\* the byte values messages are made of
MsgBytes == {0, 255}

\* the bits of a byte that may be inverted in transit
FlipBits == {0, 7}

(***************************************************************************)
(* Byte helpers.                                                           *)
(***************************************************************************)
RECURSIVE SeqsUpTo(_, _)
SeqsUpTo(S, n) ==
  IF n = 0 THEN {<<>>}
  ELSE LET shorter == SeqsUpTo(S, n - 1)
       IN  shorter \cup {Append(s, x) : s \in {t \in shorter : Len(t) = n - 1}, x \in S}

Messages == SeqsUpTo(MsgBytes, MaxMsgLen)

RECURSIVE Pow2(_)
Pow2(n) == IF n = 0 THEN 1 ELSE 2 * Pow2(n - 1)

\* b with bit number bit (0 = least significant) inverted
FlipBit(b, bit) ==
  IF (b \div Pow2(bit)) % 2 = 1 THEN b - Pow2(bit) ELSE b + Pow2(bit)

FlipBitAt(bytes, i, bit) == [bytes EXCEPT ![i] = FlipBit(bytes[i], bit)]

\* Uint8Array.prototype.slice(from, to), 0-based, to exclusive, both clamped
\* to the length (from and to are never negative here)
Slice(bytes, from, to) ==
  LET first == IF from < Len(bytes) THEN from ELSE Len(bytes)
      last  == IF to < Len(bytes) THEN to ELSE Len(bytes)
  IN  IF first >= last THEN <<>> ELSE SubSeq(bytes, first + 1, last)

\* a polynomial digest of a byte array, the stand-in for a hash: a sum of
\* the bytes weighted by position, computed by halving the range
DigestWeight(i) == (i * i * 31 + i * 613 + 1) % 1000003

RECURSIVE WeightedSum(_, _, _)
WeightedSum(bytes, lo, hi) ==
  IF lo > hi THEN 0
  ELSE IF lo = hi THEN ((bytes[lo] + 1) * DigestWeight(lo)) % 1000003
  ELSE LET mid == (lo + hi) \div 2
       IN  (WeightedSum(bytes, lo, mid) + WeightedSum(bytes, mid + 1, hi)) % 1000003

Digest(bytes) ==
  (WeightedSum(bytes, 1, Len(bytes)) + Len(bytes) * 7919 + 7) % 1000003

\* n bytes spread out of a digest value; the first three carry it whole
Expand(h, n) ==
  [i \in 1..n |->
     IF i = 1 THEN h % 256
     ELSE IF i = 2 THEN (h \div 256) % 256
     ELSE IF i = 3 THEN (h \div 65536) % 256
     ELSE (h + 17 * i) % 256]

(***************************************************************************)
(* utils/encoding: base64 by js-base64.                                    *)
(***************************************************************************)
B64Alphabet ==
  << "A","B","C","D","E","F","G","H","I","J","K","L","M","N","O","P",
     "Q","R","S","T","U","V","W","X","Y","Z","a","b","c","d","e","f",
     "g","h","i","j","k","l","m","n","o","p","q","r","s","t","u","v",
     "w","x","y","z","0","1","2","3","4","5","6","7","8","9","+","/" >>

B64Char(v) == B64Alphabet[v + 1]

B64CharSet == {B64Alphabet[i] : i \in 1..64}

B64Value == [c \in B64CharSet |-> (CHOOSE i \in 1..64 : B64Alphabet[i] = c) - 1]

\* fromUint8Array(bytes, false): standard alphabet, padded.  Character j
\* belongs to the group of three bytes number (j - 1) \div 4.
fromUint8ArrayStd(bytes) ==
  LET n == Len(bytes)
      At(k) == IF k <= n THEN bytes[k] ELSE 0
  IN  [j \in 1..(4 * ((n + 2) \div 3)) |->
         LET k   == 3 * ((j - 1) \div 4)
             pos == (j - 1) % 4
         IN  IF pos = 0 THEN B64Char(At(k + 1) \div 4)
             ELSE IF pos = 1 THEN B64Char((At(k + 1) % 4) * 16 + At(k + 2) \div 16)
             ELSE IF pos = 2 THEN
               IF k + 2 > n THEN "="
               ELSE B64Char((At(k + 2) % 16) * 4 + At(k + 3) \div 64)
             ELSE IF k + 3 > n THEN "=" ELSE B64Char(At(k + 3) % 64)]

\* _mkUriSafe: padding removed, "+" becomes "-" and "/" becomes "_"
mkUriSafe(str) ==
  LET kept == SelectSeq(str, LAMBDA c : c # "=")
  IN  [i \in 1..Len(kept) |->
         IF kept[i] = "+" THEN "-" ELSE IF kept[i] = "/" THEN "_" ELSE kept[i]]

fromUint8Array(bytes, urlSafe) ==
  IF urlSafe THEN mkUriSafe(fromUint8ArrayStd(bytes)) ELSE fromUint8ArrayStd(bytes)

\* _unURI then _tidyB64: "-" and "_" mapped back, every other foreign
\* character (the padding included) dropped
tidyB64(str) ==
  LET mapped == [i \in 1..Len(str) |->
                   IF str[i] = "-" THEN "+" ELSE IF str[i] = "_" THEN "/" ELSE str[i]]
  IN  SelectSeq(mapped, LAMBDA c : c \in B64CharSet)

\* Buffer.from(s, "base64") on a tidy string: whole groups of four
\* characters give three bytes, a rest of three gives two, of two gives one,
\* a single left-over character gives none
decodeTidy(s) ==
  LET m    == Len(s)
      rest == m % 4
      n    == 3 * (m \div 4) + (IF rest = 2 THEN 1 ELSE IF rest = 3 THEN 2 ELSE 0)
      V(k) == B64Value[s[k]]
  IN  [t \in 1..n |->
         LET k   == 4 * ((t - 1) \div 3)
             pos == (t - 1) % 3
         IN  IF pos = 0 THEN V(k + 1) * 4 + V(k + 2) \div 16
             ELSE IF pos = 1 THEN (V(k + 2) % 16) * 16 + V(k + 3) \div 4
             ELSE (V(k + 3) % 4) * 64 + V(k + 4)]

toUint8Array(str) == decodeTidy(tidyB64(str))

toBytes(base64) == toUint8Array(base64)

\* utils/encoding.ts: urlSafe defaults to false
bytesToBase64(bytes, urlSafe) == fromUint8Array(bytes, urlSafe)

\* encodeData(data, "base64")
encodeData(data) == bytesToBase64(data, FALSE)

(***************************************************************************)
(* String.prototype.split and the separator.                               *)
(***************************************************************************)
SEPARATOR == << "_", "_", "n", "_", "_" >>

\* String.prototype.indexOf: the first index at which sep occurs in s, 0
\* when there is none
IndexOf(s, sep) ==
  LET hits == {i \in 1..(Len(s) - Len(sep) + 1) : SubSeq(s, i, i + Len(sep) - 1) = sep}
  IN  IF hits = {} THEN 0 ELSE CHOOSE i \in hits : \A j \in hits : i <= j

RECURSIVE Split(_, _)
Split(s, sep) ==
  LET i == IndexOf(s, sep)
  IN  IF i = 0 THEN << s >>
      ELSE << SubSeq(s, 1, i - 1) >> \o Split(SubSeq(s, i + Len(sep), Len(s)), sep)


(***************************************************************************)
(* The random generator: randomBytes(n) returns one of a few byte arrays,  *)
(* picked by a seed.  The seed SeparatorSeed picks the bytes ff f9 ff ff   *)
(* ..., whose URL-safe base64 text is "__n_____...".                       *)
(***************************************************************************)
SeparatorSeed == 0

generateRandomBytes(seed, n) ==
  IF seed = SeparatorSeed THEN [i \in 1..n |-> IF i = 2 THEN 249 ELSE 255]
  ELSE [i \in 1..n |-> (seed * 53 + i * 29) % 256]

NonceSeeds == 1..MaxNonceSeed

(***************************************************************************)
(* ecies/config and the curve.  The curve group is replaced by the         *)
(* subgroup of prime order CurveQ of the integers modulo CurveP, with      *)
(* generator CurveG: a private key is SCALAR_LEN bytes, big-endian, of a    *)
(* scalar in 1..CurveQ-1; a point is POINT_LEN bytes, a parity prefix (2   *)
(* or 3) and the group element, big-endian.                                *)
(***************************************************************************)
CurveP == 23
CurveQ == 11
CurveG == 2

NONCE_LEN == 12

TAG_LEN == 16

\* "ECIES-AES256-GCM-SHA256"
INFO == << 69, 67, 73, 69, 83, 45, 65, 69, 83, 50, 53, 54, 45, 71, 67, 77,
           45, 83, 72, 65, 50, 53, 54 >>

DEFAULT_KEY_LENGTH == 32

RECURSIVE ModExp(_, _, _)
ModExp(b, e, p) == IF e = 0 THEN 1 ELSE (b * ModExp(b, e - 1, p)) % p

\* the length of a private key and of a compressed public key
SCALAR_LEN == 32

POINT_LEN == 33

ScalarBytes(a) == [i \in 1..SCALAR_LEN |-> IF i = SCALAR_LEN THEN a ELSE 0]

PointBytes(x) ==
  [i \in 1..POINT_LEN |-> IF i = 1 THEN 2 + (x % 2) ELSE IF i = POINT_LEN THEN x ELSE 0]

ValidScalar(bytes) ==
  /\ Len(bytes) = SCALAR_LEN
  /\ \A i \in 1..(SCALAR_LEN - 1) : bytes[i] = 0
  /\ bytes[SCALAR_LEN] \in 1..(CurveQ - 1)

ValidPoint(bytes) ==
  /\ Len(bytes) = POINT_LEN
  /\ \A i \in 2..(POINT_LEN - 1) : bytes[i] = 0
  /\ bytes[POINT_LEN] \in 2..(CurveP - 1)
  /\ bytes[1] = 2 + (bytes[POINT_LEN] % 2)
  /\ ModExp(bytes[POINT_LEN], CurveQ, CurveP) = 1

Ok(v) == [err |-> "", val |-> v]

Throw(message) == [err |-> message, val |-> <<>>]

\* CURVE.getPublicKey(privateKey)
CurveGetPublicKey(privateKey) ==
  IF ~ValidScalar(privateKey) THEN Throw("invalid private key")
  ELSE Ok(PointBytes(ModExp(CurveG, privateKey[SCALAR_LEN], CurveP)))

\* CURVE.getSharedSecret(privateKey, publicKey): the compressed shared point
CurveGetSharedSecret(privateKey, publicKey) ==
  IF ~ValidScalar(privateKey) THEN Throw("invalid private key")
  ELSE IF ~ValidPoint(publicKey) THEN Throw("invalid public key")
  ELSE Ok(PointBytes(ModExp(publicKey[POINT_LEN], privateKey[SCALAR_LEN], CurveP)))

\* ecies/keys.ts
deriveSharedSecret(privateKey, publicKey) ==
  CurveGetSharedSecret(privateKey, publicKey)

\* A key or a secret as a caller holds it: a byte array, or the base64
\* string of one.
AsByteArray(bytes) == [kind |-> "bytes", bytes |-> bytes, str |-> <<>>]

AsBase64(bytes) == [kind |-> "string", bytes |-> <<>>, str |-> encodeData(bytes)]

Encoded(bytes, encoding) ==
  IF encoding = "base64" THEN AsBase64(bytes) ELSE AsByteArray(bytes)

\* a faulty variant: the result is encoded as the private key was
deriveSharedSecretAsGiven(privateKey, publicKey, encoding) ==
  LET privateKeyBytes ==
        IF privateKey.kind = "string" THEN toBytes(privateKey.str) ELSE privateKey.bytes
      publicKeyBytes ==
        IF publicKey.kind = "string" THEN toBytes(publicKey.str) ELSE publicKey.bytes
      sharedSecret == CurveGetSharedSecret(privateKeyBytes, publicKeyBytes)
  IN  IF sharedSecret.err # "" THEN [err |-> sharedSecret.err, val |-> AsByteArray(<<>>)]
      ELSE Ok(Encoded(sharedSecret.val,
                      IF privateKey.kind = "string" THEN "base64" ELSE "bytes"))

\* deriveSharedSecret(privateKey, publicKey, encoding), each key a byte array
\* or a base64 string; encoding "" stands for an omitted argument
deriveSharedSecretAs(privateKey, publicKey, encoding) ==
  LET privateKeyBytes ==
        IF privateKey.kind = "string" THEN toBytes(privateKey.str) ELSE privateKey.bytes
      publicKeyBytes ==
        IF publicKey.kind = "string" THEN toBytes(publicKey.str) ELSE publicKey.bytes
      sharedSecret == CurveGetSharedSecret(privateKeyBytes, publicKeyBytes)
  IN  IF sharedSecret.err # "" THEN [err |-> sharedSecret.err, val |-> AsByteArray(<<>>)]
      ELSE Ok(Encoded(sharedSecret.val, IF encoding = "" THEN "bytes" ELSE encoding))

generateECKeyPair(scalar) ==
  [privateKey |-> ScalarBytes(scalar),
   publicKey  |-> CurveGetPublicKey(ScalarBytes(scalar)).val]

\* kdf/core.ts: hkdf(sha256, keyMaterial, salt, info, DEFAULT_KEY_LENGTH)
deriveHKDFKey(keyMaterial, salt, info) ==
  Expand(Digest(<< Len(keyMaterial) >> \o keyMaterial \o << Len(salt) >> \o salt \o info),
         DEFAULT_KEY_LENGTH)

\* a faulty variant: hkdf is asked for as many bytes as the salt has
deriveHKDFKeySaltLength(keyMaterial, salt, info, encoding) ==
  LET key == Expand(Digest(<< Len(keyMaterial) >> \o keyMaterial
                           \o << Len(salt) >> \o salt \o info), Len(salt))
  IN  Ok(Encoded(key, IF encoding = "" THEN "bytes" ELSE encoding))

\* kdf/core.ts deriveHKDFKey(keyMaterial, salt, info, encoding): the key as
\* bytes unless encoding is "base64"; encoding "" stands for an omitted
\* argument
deriveHKDFKeyAs(keyMaterial, salt, info, encoding) ==
  LET key      == deriveHKDFKey(keyMaterial, salt, info)
      encodeTo == IF encoding = "" THEN "bytes" ELSE encoding
  IN  Ok(Encoded(key, encodeTo))

(***************************************************************************)
(* AES-GCM (@noble/ciphers gcm): a keystream added to the message, then a  *)
(* TAG_LEN-byte tag over key, nonce and ciphertext body.                   *)
(***************************************************************************)
GcmKeystream(key, nonce, i) == (Digest(key \o nonce) + 13 * i) % 256

\* a faulty variant: a tag that depends on the ciphertext body alone
GcmTagBodyOnly(key, nonce, body) == Expand(Digest(body), TAG_LEN)

GcmTag(key, nonce, body) ==
  Expand(Digest(<< Len(key) % 256 >> \o key \o << Len(nonce) % 256 >> \o nonce \o body),
         TAG_LEN)

\* gcm(key, nonce).encrypt(message): ciphertext body followed by the tag
gcmEncrypt(key, nonce, message) ==
  IF Len(key) \notin {16, 24, 32} THEN Throw("aes: invalid key length")
  ELSE IF Len(nonce) = 0 THEN Throw("aes/gcm: invalid nonce")
  ELSE LET body == [i \in 1..Len(message) |->
                      (message[i] + GcmKeystream(key, nonce, i)) % 256]
       IN  Ok(body \o GcmTag(key, nonce, body))

\* gcm(key, nonce).decrypt(data): the tag is verified before anything is
\* returned
gcmDecrypt(key, nonce, data) ==
  IF Len(key) \notin {16, 24, 32} THEN Throw("aes: invalid key length")
  ELSE IF Len(nonce) = 0 THEN Throw("aes/gcm: invalid nonce")
  ELSE IF Len(data) < TAG_LEN THEN Throw("aes/gcm: ciphertext less than tagLen")
  ELSE LET body == SubSeq(data, 1, Len(data) - TAG_LEN)
           tag  == SubSeq(data, Len(data) - TAG_LEN + 1, Len(data))
       IN  IF tag # GcmTag(key, nonce, body) THEN Throw("aes/gcm: invalid ghash tag")
           ELSE Ok([i \in 1..Len(body) |->
                      (body[i] + 256 - GcmKeystream(key, nonce, i)) % 256])

(***************************************************************************)
(* ecies/core.ts                                                           *)
(***************************************************************************)
EmptyCipher == [ephemeralPublicKey |-> <<>>, nonce |-> <<>>, ciphertext |-> <<>>, mac |-> <<>>]

\* a value handed to eciesDecrypt: a string or an EciesCipher record
AsString(str) == [fmt |-> "string", str |-> str, rec |-> EmptyCipher]

AsRecord(rec) == [fmt |-> "raw", str |-> <<>>, rec |-> rec]

NoWire == [fmt |-> "none", str |-> <<>>, rec |-> EmptyCipher]

\* a Uint8Array handed over as it is; str holds its bytes
AsBytes(bytes) == [fmt |-> "bytes", str |-> bytes, rec |-> EmptyCipher]

\* returnFormat "" stands for an omitted argument
Formats == {"", "base64", "raw"}

\* a faulty variant: the body cut off at the nonce length before the end
EciesCiphertextBytesNonceLen(ciphertext) ==
  Slice(ciphertext, 0, Len(ciphertext) - NONCE_LEN)

\* ciphertext.slice(0, ciphertext.length - 16)
EciesCiphertextBytes(ciphertext) == Slice(ciphertext, 0, Len(ciphertext) - 16)

\* a faulty variant: the mac cut off at the nonce length instead of the tag
\* length
EciesMacBytesNonceLen(ciphertext) ==
  Slice(ciphertext, Len(ciphertext) - NONCE_LEN, Len(ciphertext))

\* ciphertext.slice(ciphertext.length - 16)
EciesMacBytes(ciphertext) == Slice(ciphertext, Len(ciphertext) - 16, Len(ciphertext))

\* a faulty variant: ciphertext and nonce change places in the string
EciesConcatSwapped(ephemeralPublicKey, nonceBase64, ciphertextBase64, macBase64) ==
  ephemeralPublicKey \o SEPARATOR \o ciphertextBase64 \o SEPARATOR
  \o nonceBase64 \o SEPARATOR \o macBase64

\* the string returned for the "base64" format
EciesConcat(ephemeralPublicKey, nonceBase64, ciphertextBase64, macBase64) ==
  ephemeralPublicKey \o SEPARATOR \o nonceBase64 \o SEPARATOR
  \o ciphertextBase64 \o SEPARATOR \o macBase64

eciesEncrypt(publicKey, message, returnFormat, ephemeralScalar, nonceSeed) ==
  LET ephemeralPrivateKey     == ScalarBytes(ephemeralScalar)
      ephemeralPublicKeyBytes == CurveGetPublicKey(ephemeralPrivateKey).val
      sharedSecret            == deriveSharedSecret(ephemeralPrivateKey, publicKey)
  IN  IF sharedSecret.err # "" THEN [err |-> sharedSecret.err, val |-> NoWire]
      ELSE
        LET derivedKey == deriveHKDFKey(sharedSecret.val, ephemeralPublicKeyBytes, INFO)
            nonce      == generateRandomBytes(nonceSeed, NONCE_LEN)
            ciphertext == gcmEncrypt(derivedKey, nonce, message).val
            ciphertextBytes == EciesCiphertextBytes(ciphertext)
            macBytes        == EciesMacBytes(ciphertext)
            ephemeralPublicKey == bytesToBase64(ephemeralPublicKeyBytes, FALSE)
            nonceBase64        == bytesToBase64(nonce, FALSE)
            ciphertextBase64   == bytesToBase64(ciphertextBytes, FALSE)
            macBase64          == bytesToBase64(macBytes, FALSE)
            actualFormat == IF returnFormat = "" THEN "base64" ELSE returnFormat
        IN  IF actualFormat = "raw"
            THEN Ok(AsRecord([ephemeralPublicKey |-> ephemeralPublicKey,
                              nonce |-> nonceBase64,
                              ciphertext |-> ciphertextBase64,
                              mac |-> macBase64]))
            ELSE Ok(AsString(EciesConcat(ephemeralPublicKey, nonceBase64,
                                         ciphertextBase64, macBase64)))

\* a faulty variant: the four parts are not checked for emptiness
parseEciesCipherStringUnchecked(concatenatedData) ==
  LET parts == Split(concatenatedData, SEPARATOR)
  IN  IF Len(parts) # 4 THEN [err |-> "Invalid encrypted data format", val |-> EmptyCipher]
      ELSE Ok([ephemeralPublicKey |-> parts[1], nonce |-> parts[2],
               ciphertext |-> parts[3], mac |-> parts[4]])

parseEciesCipherString(concatenatedData) ==
  LET parts == Split(concatenatedData, SEPARATOR)
  IN  IF Len(parts) # 4 THEN [err |-> "Invalid encrypted data format", val |-> EmptyCipher]
      ELSE IF parts[1] = <<>> \/ parts[2] = <<>> \/ parts[3] = <<>> \/ parts[4] = <<>>
      THEN [err |-> "Missing required parts in encrypted data", val |-> EmptyCipher]
      ELSE Ok([ephemeralPublicKey |-> parts[1], nonce |-> parts[2],
               ciphertext |-> parts[3], mac |-> parts[4]])

\* The outcome of a decrypt call: err and val as above, and calls, the
\* cryptographic library calls the call made before it returned or threw.
Outcome(err, val, calls) == [err |-> err, val |-> val, calls |-> calls]

\* a faulty variant: the keystream is removed and the mac never looked at
EciesOpenUnverified(derivedKey, nonce, ciphertext, mac) ==
  Ok([i \in 1..Len(ciphertext) |->
        (ciphertext[i] + 256 - GcmKeystream(derivedKey, nonce, i)) % 256])

\* gcm(derivedKey, nonce).decrypt(ciphertext followed by mac)
EciesOpen(derivedKey, nonce, ciphertext, mac) ==
  gcmDecrypt(derivedKey, nonce, ciphertext \o mac)

eciesDecrypt(privateKey, encryptedData) ==
  LET structuredData ==
        IF encryptedData.fmt = "string"
        THEN parseEciesCipherString(encryptedData.str)
        ELSE Ok(encryptedData.rec)
  IN  IF structuredData.err # "" THEN Outcome(structuredData.err, <<>>, <<>>)
      ELSE
        LET ephemeralPublicKey == toBytes(structuredData.val.ephemeralPublicKey)
            nonce        == toBytes(structuredData.val.nonce)
            ciphertext   == toBytes(structuredData.val.ciphertext)
            mac          == toBytes(structuredData.val.mac)
            sharedSecret == deriveSharedSecret(privateKey, ephemeralPublicKey)
        IN  IF sharedSecret.err # ""
            THEN Outcome(sharedSecret.err, <<>>, << "getSharedSecret" >>)
            ELSE
              LET derivedKey == deriveHKDFKey(sharedSecret.val, ephemeralPublicKey, INFO)
                  decryptedMessage == EciesOpen(derivedKey, nonce, ciphertext, mac)
              IN  Outcome(decryptedMessage.err, decryptedMessage.val,
                          << "getSharedSecret", "hkdf", "gcm.decrypt" >>)

(***************************************************************************)
(* ecies/encrypt.ts and ecies/decrypt.ts: the same scheme with every field *)
(* and key written in hexadecimal (bytesToHex and hexToBytes of            *)
(* @noble/hashes), and a decrypt that resolves to null when the AEAD       *)
(* refuses.                                                                *)
(***************************************************************************)
HexDigits ==
  << "0", "1", "2", "3", "4", "5", "6", "7", "8", "9", "a", "b", "c", "d", "e", "f" >>

HexCapitals == << "A", "B", "C", "D", "E", "F" >>

bytesToHex(bytes) ==
  [k \in 1..(2 * Len(bytes)) |->
     IF k % 2 = 1 THEN HexDigits[(bytes[(k + 1) \div 2] \div 16) + 1]
     ELSE HexDigits[(bytes[k \div 2] % 16) + 1]]

\* the value of a hexadecimal digit, -1 for any other character
HexValue(c) ==
  IF \E i \in 1..16 : HexDigits[i] = c
  THEN (CHOOSE i \in 1..16 : HexDigits[i] = c) - 1
  ELSE IF \E i \in 1..6 : HexCapitals[i] = c
  THEN (CHOOSE i \in 1..6 : HexCapitals[i] = c) + 9
  ELSE -1

hexToBytes(hex) ==
  IF Len(hex) % 2 = 1 THEN Throw("hex string expected, got unpadded hex")
  ELSE IF \E k \in 1..Len(hex) : HexValue(hex[k]) = -1
  THEN Throw("hex string expected, got non-hex character")
  ELSE Ok([i \in 1..(Len(hex) \div 2) |->
             HexValue(hex[2 * i - 1]) * 16 + HexValue(hex[2 * i])])

\* an EciesCiphertext of ecies/encrypt.ts handed to decrypt
AsHexRecord(rec) == [fmt |-> "hex", str |-> <<>>, rec |-> rec]

\* ecies/encrypt.ts encrypt(recipientPublicKeyHex, message)
encrypt(recipientPublicKeyHex, message, ephemeralScalar, nonceSeed) ==
  LET recipientPublicKey      == hexToBytes(recipientPublicKeyHex)
      ephemeralPrivateKey     == ScalarBytes(ephemeralScalar)
      ephemeralPublicKeyBytes == CurveGetPublicKey(ephemeralPrivateKey).val
  IN  IF recipientPublicKey.err # "" THEN [err |-> recipientPublicKey.err, val |-> NoWire]
      ELSE
        LET sharedSecret == CurveGetSharedSecret(ephemeralPrivateKey, recipientPublicKey.val)
        IN  IF sharedSecret.err # "" THEN [err |-> sharedSecret.err, val |-> NoWire]
            ELSE
              LET derivedKey == deriveHKDFKey(sharedSecret.val, ephemeralPublicKeyBytes, INFO)
                  nonce      == generateRandomBytes(nonceSeed, NONCE_LEN)
                  ciphertext == gcmEncrypt(derivedKey, nonce, message).val
                  ciphertextBytes == Slice(ciphertext, 0, Len(ciphertext) - 16)
                  macBytes        == Slice(ciphertext, Len(ciphertext) - 16, Len(ciphertext))
              IN  Ok(AsHexRecord([ephemeralPublicKey |-> bytesToHex(ephemeralPublicKeyBytes),
                                  nonce      |-> bytesToHex(nonce),
                                  ciphertext |-> bytesToHex(ciphertextBytes),
                                  mac        |-> bytesToHex(macBytes)]))

\* what decrypt does once the key is derived: gcm(derivedKey, nonce) and its
\* decrypt inside try, null (val empty, console.error the last call) from
\* the catch
DecryptGuarded(derivedKey, nonce, ciphertextWithMac) ==
  LET decryptedMessage == gcmDecrypt(derivedKey, nonce, ciphertextWithMac)
  IN  IF decryptedMessage.err # ""
      THEN Outcome("", <<>>, << "getSharedSecret", "hkdf", "gcm.decrypt", "console.error" >>)
      ELSE Outcome("", decryptedMessage.val, << "getSharedSecret", "hkdf", "gcm.decrypt" >>)

\* a faulty variant: no try around the AEAD, its error leaves the call
decryptUnguarded(recipientPrivateKeyHex, encryptedData) ==
  LET recipientPrivateKey == hexToBytes(recipientPrivateKeyHex)
      ephemeralPublicKey  == hexToBytes(encryptedData.ephemeralPublicKey)
      nonce               == hexToBytes(encryptedData.nonce)
      ciphertext          == hexToBytes(encryptedData.ciphertext)
      mac                 == hexToBytes(encryptedData.mac)
      sharedSecret        == CurveGetSharedSecret(recipientPrivateKey.val,
                                                  ephemeralPublicKey.val)
      decryptedMessage    == gcmDecrypt(deriveHKDFKey(sharedSecret.val,
                                                      ephemeralPublicKey.val, INFO),
                                        nonce.val, ciphertext.val \o mac.val)
  IN  IF recipientPrivateKey.err # "" THEN Outcome(recipientPrivateKey.err, <<>>, <<>>)
      ELSE IF ephemeralPublicKey.err # "" THEN Outcome(ephemeralPublicKey.err, <<>>, <<>>)
      ELSE IF nonce.err # "" THEN Outcome(nonce.err, <<>>, <<>>)
      ELSE IF ciphertext.err # "" THEN Outcome(ciphertext.err, <<>>, <<>>)
      ELSE IF mac.err # "" THEN Outcome(mac.err, <<>>, <<>>)
      ELSE IF sharedSecret.err # ""
      THEN Outcome(sharedSecret.err, <<>>, << "getSharedSecret" >>)
      ELSE Outcome(decryptedMessage.err, decryptedMessage.val,
                   << "getSharedSecret", "hkdf", "gcm.decrypt" >>)

\* ecies/decrypt.ts decrypt(recipientPrivateKeyHex, encryptedData): err is
\* the error the promise rejects with, "" when it resolves
decrypt(recipientPrivateKeyHex, encryptedData) ==
  LET recipientPrivateKey == hexToBytes(recipientPrivateKeyHex)
      ephemeralPublicKey  == hexToBytes(encryptedData.ephemeralPublicKey)
      nonce               == hexToBytes(encryptedData.nonce)
      ciphertext          == hexToBytes(encryptedData.ciphertext)
      mac                 == hexToBytes(encryptedData.mac)
      sharedSecret        == CurveGetSharedSecret(recipientPrivateKey.val,
                                                  ephemeralPublicKey.val)
  IN  IF recipientPrivateKey.err # "" THEN Outcome(recipientPrivateKey.err, <<>>, <<>>)
      ELSE IF ephemeralPublicKey.err # "" THEN Outcome(ephemeralPublicKey.err, <<>>, <<>>)
      ELSE IF nonce.err # "" THEN Outcome(nonce.err, <<>>, <<>>)
      ELSE IF ciphertext.err # "" THEN Outcome(ciphertext.err, <<>>, <<>>)
      ELSE IF mac.err # "" THEN Outcome(mac.err, <<>>, <<>>)
      ELSE IF sharedSecret.err # ""
      THEN Outcome(sharedSecret.err, <<>>, << "getSharedSecret" >>)
      ELSE DecryptGuarded(deriveHKDFKey(sharedSecret.val, ephemeralPublicKey.val, INFO),
                          nonce.val, ciphertext.val \o mac.val)

(***************************************************************************)
(* webcrypto/keys.ts and webcrypto/core.ts.  An RSA key pair is known by   *)
(* its modulus; the exported public key (spki) is a format byte 1, the     *)
(* modulus length in bytes and the modulus, the exported private key       *)
(* (pkcs8) a format byte 2, the same two and the private exponent.         *)
(* RSA-OAEP is replaced by a keyed mask over the padded data block with a  *)
(* HASH_LEN-byte check over the whole: what it shares with RSA-OAEP is the *)
(* length of the output (the modulus length), the capacity (modulus length *)
(* less twice the hash length less two), the random seed, and that a       *)
(* ciphertext opens only under the private key of the pair and only        *)
(* unchanged.                                                              *)
(***************************************************************************)
DEFAULT_NONCE_LENGTH == 12

\* DEFAULT_AES_KEY_SIZE (256 bits) in bytes
AES_KEY_BYTES == 32

\* the SHA-256 output length of RSA-OAEP
HASH_LEN == 32

\* the modulus length, in bytes, of the RSA keys generated (1024 bits)
MODULUS_BYTES == 128

RsaModulus(seed) == 100 + 7 * seed

RsaPrivateExponent(modulus) == (modulus * 3 + 5) % 251

generateRSAKeyPair(seed) ==
  [publicKey  |-> << 1, MODULUS_BYTES, RsaModulus(seed) >>,
   privateKey |-> << 2, MODULUS_BYTES, RsaModulus(seed),
                     RsaPrivateExponent(RsaModulus(seed)) >>]

\* subtle.importKey(format, keyBytes, RSA-OAEP): val is the key object
toRSAKey(keyBytes, format) ==
  IF format = "spki" THEN
    IF Len(keyBytes) = 3 /\ keyBytes[1] = 1
    THEN Ok([modulusBytes |-> keyBytes[2], modulus |-> keyBytes[3]])
    ELSE Throw("DataError")
  ELSE
    IF /\ Len(keyBytes) = 4
       /\ keyBytes[1] = 2
       /\ keyBytes[4] = RsaPrivateExponent(keyBytes[3])
    THEN Ok([modulusBytes |-> keyBytes[2], modulus |-> keyBytes[3]])
    ELSE Throw("DataError")

OaepMask(key, i) == (key.modulus * 37 + i * 101) % 256

OaepCheck(key, db) == Expand(Digest(<< key.modulus >> \o db), HASH_LEN)

\* a faulty variant: room is kept for one hash only
rsaOaepEncryptOneHash(key, message, seed) ==
  IF Len(message) > key.modulusBytes - HASH_LEN - 2 THEN Throw("OperationError")
  ELSE
    LET dbLen == key.modulusBytes - HASH_LEN
        zeros == dbLen - 2 - Len(message)
        db    == [i \in 1..dbLen |->
                    IF i = 1 THEN seed
                    ELSE IF i <= 1 + zeros THEN 0
                    ELSE IF i = 2 + zeros THEN 1
                    ELSE message[i - 2 - zeros]]
    IN  Ok(OaepCheck(key, db)
           \o [i \in 1..dbLen |-> (db[i] + OaepMask(key, i)) % 256])

\* subtle.encrypt({name: "RSA-OAEP"}, key, message)
rsaOaepEncrypt(key, message, seed) ==
  IF Len(message) > key.modulusBytes - 2 * HASH_LEN - 2 THEN Throw("OperationError")
  ELSE
    LET dbLen == key.modulusBytes - HASH_LEN
        zeros == dbLen - 2 - Len(message)
        db    == [i \in 1..dbLen |->
                    IF i = 1 THEN seed
                    ELSE IF i <= 1 + zeros THEN 0
                    ELSE IF i = 2 + zeros THEN 1
                    ELSE message[i - 2 - zeros]]
    IN  Ok(OaepCheck(key, db)
           \o [i \in 1..dbLen |-> (db[i] + OaepMask(key, i)) % 256])

\* subtle.decrypt({name: "RSA-OAEP"}, key, data)
rsaOaepDecrypt(key, data) ==
  IF Len(data) # key.modulusBytes THEN Throw("OperationError")
  ELSE
    LET dbLen == key.modulusBytes - HASH_LEN
        db    == [i \in 1..dbLen |->
                    (data[HASH_LEN + i] + 256 - OaepMask(key, i)) % 256]
        ones  == {i \in 2..dbLen : db[i] # 0}
        mark  == IF ones = {} THEN 0 ELSE CHOOSE i \in ones : \A j \in ones : i <= j
    IN  IF \/ SubSeq(data, 1, HASH_LEN) # OaepCheck(key, db)
           \/ mark = 0
           \/ db[mark] # 1
        THEN Throw("OperationError")
        ELSE Ok(SubSeq(db, mark + 1, dbLen))

\* a faulty variant: the nonce goes into the check of the block
rsaDecryptNonceBound(privateKey, cipherText) ==
  LET key == toRSAKey(privateKey, "pkcs8")
  IN  IF key.err # "" THEN Outcome(key.err, <<>>, << "importKey" >>)
      ELSE
        LET nonceBytes      == Slice(cipherText, 0, DEFAULT_NONCE_LENGTH)
            cipherTextBytes == Slice(cipherText, DEFAULT_NONCE_LENGTH, Len(cipherText))
            decrypted       == rsaOaepDecrypt(key.val, cipherTextBytes)
        IN  IF nonceBytes # generateRandomBytes(1, DEFAULT_NONCE_LENGTH)
            THEN Outcome("OperationError", <<>>, << "importKey", "rsa.decrypt" >>)
            ELSE Outcome(decrypted.err, decrypted.val, << "importKey", "rsa.decrypt" >>)

\* a faulty variant: the message leaves behind the nonce as it came
rsaEncryptUnwrapped(publicKey, message, nonceSeed, oaepSeed) ==
  LET key == toRSAKey(publicKey, "spki")
  IN  IF key.err # "" THEN Throw(key.err)
      ELSE Ok(encodeData(generateRandomBytes(nonceSeed, DEFAULT_NONCE_LENGTH) \o message))

\* webcrypto/core.ts rsaEncrypt(publicKey, message, "base64")
rsaEncrypt(publicKey, message, nonceSeed, oaepSeed) ==
  LET key == toRSAKey(publicKey, "spki")
  IN  IF key.err # "" THEN Throw(key.err)
      ELSE
        LET nonce      == generateRandomBytes(nonceSeed, DEFAULT_NONCE_LENGTH)
            ciphertext == rsaOaepEncrypt(key.val, message, oaepSeed)
        IN  IF ciphertext.err # "" THEN Throw(ciphertext.err)
            ELSE Ok(encodeData(nonce \o ciphertext.val))

\* a faulty variant: the nonce is left out of what is returned
rsaEncryptAsBare(publicKey, message, encoding, nonceSeed, oaepSeed) ==
  LET key == toRSAKey(publicKey, "spki")
  IN  IF key.err # "" THEN Throw(key.err)
      ELSE
        LET ciphertext == rsaOaepEncrypt(key.val, message, oaepSeed)
        IN  IF ciphertext.err # "" THEN Throw(ciphertext.err)
            ELSE IF encoding = "bytes" THEN Ok(AsBytes(ciphertext.val))
            ELSE Ok(AsString(encodeData(ciphertext.val)))

\* webcrypto/core.ts rsaEncrypt(publicKey, message, encoding): nonce and
\* RSA-OAEP ciphertext, as base64 unless encoding is "bytes"; encoding ""
\* stands for an omitted argument
rsaEncryptAs(publicKey, message, encoding, nonceSeed, oaepSeed) ==
  LET key == toRSAKey(publicKey, "spki")
  IN  IF key.err # "" THEN Throw(key.err)
      ELSE
        LET nonce               == generateRandomBytes(nonceSeed, DEFAULT_NONCE_LENGTH)
            ciphertext          == rsaOaepEncrypt(key.val, message, oaepSeed)
            actualReturnFormat  == IF encoding = "" THEN "base64" ELSE encoding
            cipherTextWithNonce == nonce \o ciphertext.val
        IN  IF ciphertext.err # "" THEN Throw(ciphertext.err)
            ELSE IF actualReturnFormat = "base64"
                 THEN Ok(AsString(encodeData(cipherTextWithNonce)))
                 ELSE Ok(AsBytes(cipherTextWithNonce))

\* webcrypto/core.ts rsaDecrypt(privateKey, cipherText); calls names the
\* library calls made
rsaDecrypt(privateKey, cipherText) ==
  LET key == toRSAKey(privateKey, "pkcs8")
  IN  IF key.err # "" THEN Outcome(key.err, <<>>, << "importKey" >>)
      ELSE
        LET cipherTextBytes == Slice(cipherText, DEFAULT_NONCE_LENGTH, Len(cipherText))
            decrypted       == rsaOaepDecrypt(key.val, cipherTextBytes)
        IN  Outcome(decrypted.err, decrypted.val, << "importKey", "rsa.decrypt" >>)

\* a message longer than an RSA-OAEP block of the generated keys can hold
LongMessage == [i \in 1..MODULUS_BYTES |-> (i * 7) % 256]

\* a faulty variant: a 128-bit key
generateAESKeyShort(seed) == generateRandomBytes(100 + seed, 16)

\* generateAESKey() then exportAESKey(key): the raw key bytes
generateAESKey(seed) == generateRandomBytes(100 + seed, AES_KEY_BYTES)

\* toAESKey(keyBytes): subtle.importKey("raw", keyBytes, AES-GCM)
toAESKey(keyBytes) ==
  IF Len(keyBytes) \in {16, 24, 32} THEN Ok(keyBytes) ELSE Throw("DataError")

\* webcrypto/core.ts aesEncrypt(key, message, "base64")
aesEncrypt(key, message, nonceSeed) ==
  LET nonce      == generateRandomBytes(nonceSeed, DEFAULT_NONCE_LENGTH)
      ciphertext == gcmEncrypt(key, nonce, message).val
  IN  encodeData(nonce \o ciphertext)

\* a faulty variant: the first half of the raw key is exported
exportAESKeyHalf(key, encoding) ==
  IF encoding = "base64" THEN encodeData(SubSeq(key, 1, Len(key) \div 2))
  ELSE SubSeq(key, 1, Len(key) \div 2)

\* exportAESKey(key, encoding): the raw key, as bytes unless encoding is
\* "base64"; encoding "" stands for an omitted argument
exportAESKey(key, encoding) ==
  IF encoding = "base64" THEN encodeData(key) ELSE key

\* a faulty variant: the nonce is put behind the AES-GCM output
aesEncryptAsNonceLast(key, message, encoding, nonceSeed) ==
  LET nonce               == generateRandomBytes(nonceSeed, DEFAULT_NONCE_LENGTH)
      ciphertext          == gcmEncrypt(key, nonce, message)
      cipherTextWithNonce == ciphertext.val \o nonce
      actualReturnFormat  == IF encoding = "" THEN "bytes" ELSE encoding
  IN  IF ciphertext.err # "" THEN Throw("OperationError")
      ELSE IF actualReturnFormat = "base64"
           THEN Ok(AsString(encodeData(cipherTextWithNonce)))
           ELSE Ok(AsBytes(cipherTextWithNonce))

\* webcrypto/core.ts aesEncrypt(key, message, encoding): nonce, ciphertext
\* body and tag, as bytes unless encoding is "base64"
aesEncryptAs(key, message, encoding, nonceSeed) ==
  LET nonce               == generateRandomBytes(nonceSeed, DEFAULT_NONCE_LENGTH)
      ciphertext          == gcmEncrypt(key, nonce, message)
      cipherTextWithNonce == nonce \o ciphertext.val
      actualReturnFormat  == IF encoding = "" THEN "bytes" ELSE encoding
  IN  IF ciphertext.err # "" THEN Throw("OperationError")
      ELSE IF actualReturnFormat = "base64"
           THEN Ok(AsString(encodeData(cipherTextWithNonce)))
           ELSE Ok(AsBytes(cipherTextWithNonce))

\* rsa/envelope-helpers.ts aesEncrypt(key, message, returnFormat): the same
\* bytes; its encodeData is that of utils/encoding-utils, whose base64 is
\* URL-safe
aesEncryptHelper(key, message, returnFormat, nonceSeed) ==
  LET nonce               == generateRandomBytes(nonceSeed, DEFAULT_NONCE_LENGTH)
      ciphertext          == gcmEncrypt(key, nonce, message)
      cipherTextWithNonce == nonce \o ciphertext.val
      actualReturnFormat  == IF returnFormat = "" THEN "bytes" ELSE returnFormat
  IN  IF ciphertext.err # "" THEN Throw("OperationError")
      ELSE IF actualReturnFormat = "base64"
           THEN Ok(AsString(bytesToBase64(cipherTextWithNonce, TRUE)))
           ELSE Ok(AsBytes(cipherTextWithNonce))

\* a faulty variant: the tag is dropped without being verified
aesDecryptUnverified(key, cipherTextWithNonce) ==
  LET nonce == Slice(cipherTextWithNonce, 0, DEFAULT_NONCE_LENGTH)
      body  == Slice(cipherTextWithNonce, DEFAULT_NONCE_LENGTH,
                     Len(cipherTextWithNonce) - TAG_LEN)
  IN  Ok([i \in 1..Len(body) |->
            (body[i] + 256 - GcmKeystream(key, nonce, i)) % 256])

\* webcrypto/core.ts aesDecrypt(key, cipherTextWithNonce)
aesDecrypt(key, cipherTextWithNonce) ==
  LET nonce      == Slice(cipherTextWithNonce, 0, DEFAULT_NONCE_LENGTH)
      ciphertext == Slice(cipherTextWithNonce, DEFAULT_NONCE_LENGTH,
                          Len(cipherTextWithNonce))
      decrypted  == gcmDecrypt(key, nonce, ciphertext)
  IN  IF decrypted.err # "" THEN Throw("OperationError") ELSE decrypted

(***************************************************************************)
(* webcrypto/envelope.ts                                                   *)
(***************************************************************************)
\* a faulty variant: the message part first, as rsaEncryptEnvelope laid it out
EnvelopeConcatMessageFirst(encryptedAesKey, encryptedMessage) ==
  encryptedMessage \o SEPARATOR \o encryptedAesKey

\* encryptedAesKey + SEPARATOR + encryptedMessage
EnvelopeConcat(encryptedAesKey, encryptedMessage) ==
  encryptedAesKey \o SEPARATOR \o encryptedMessage

encryptEnvelope(publicKey, message, aesSeed, nonceSeed, rsaNonceSeed, oaepSeed) ==
  LET aesKey           == generateAESKey(aesSeed)
      encryptedMessage == aesEncrypt(aesKey, message, nonceSeed)
      aesKeyBytes      == aesKey
      encryptedAesKey  == rsaEncrypt(publicKey, aesKeyBytes, rsaNonceSeed, oaepSeed)
  IN  IF encryptedAesKey.err # "" THEN [err |-> encryptedAesKey.err, val |-> NoWire]
      ELSE Ok(AsString(EnvelopeConcat(encryptedAesKey.val, encryptedMessage)))

\* a faulty variant: the parts read message first, key second, the order of
\* rsaDecryptEnvelope
decryptEnvelopeMessageFirst(privateKey, envelopedCipher) ==
  LET parts            == Split(envelopedCipher, SEPARATOR)
      encryptedMessage == parts[1]
      encryptedAesKey  == IF Len(parts) >= 2 THEN parts[2] ELSE <<>>
  IN  IF encryptedMessage = <<>> \/ encryptedAesKey = <<>>
      THEN Outcome("Invalid encrypted message", <<>>, <<>>)
      ELSE
        LET keyBytes == rsaDecrypt(privateKey, toBytes(encryptedAesKey))
        IN  IF keyBytes.err # "" THEN keyBytes
            ELSE
              LET aesKey == toAESKey(keyBytes.val)
              IN  IF aesKey.err # ""
                  THEN Outcome(aesKey.err, <<>>, keyBytes.calls \o << "importKey" >>)
                  ELSE
                    LET message == aesDecrypt(aesKey.val, toBytes(encryptedMessage))
                    IN  Outcome(message.err, message.val,
                                keyBytes.calls \o << "importKey", "aes.decrypt" >>)

\* const [encryptedAesKey, encryptedMessage] = envelopedCipher.split(SEPARATOR):
\* the first two parts, whatever follows them; a missing part is undefined
decryptEnvelope(privateKey, envelopedCipher) ==
  LET parts            == Split(envelopedCipher, SEPARATOR)
      encryptedAesKey  == parts[1]
      encryptedMessage == IF Len(parts) >= 2 THEN parts[2] ELSE <<>>
  IN  IF encryptedMessage = <<>> \/ encryptedAesKey = <<>>
      THEN Outcome("Invalid encrypted message", <<>>, <<>>)
      ELSE
        LET keyBytes == rsaDecrypt(privateKey, toBytes(encryptedAesKey))
        IN  IF keyBytes.err # "" THEN keyBytes
            ELSE
              LET aesKey == toAESKey(keyBytes.val)
              IN  IF aesKey.err # ""
                  THEN Outcome(aesKey.err, <<>>, keyBytes.calls \o << "importKey" >>)
                  ELSE
                    LET message == aesDecrypt(aesKey.val, toBytes(encryptedMessage))
                    IN  Outcome(message.err, message.val,
                                keyBytes.calls \o << "importKey", "aes.decrypt" >>)

(***************************************************************************)
(* nacl/core.ts.  secretbox (XSalsa20-Poly1305) is replaced by the same    *)
(* keystream and tag as above, the tag first as tweetnacl lays it out.     *)
(***************************************************************************)
SECRET_BOX_KEY_LEN == 32

SECRET_BOX_NONCE_LEN == 24

generateSecretBoxKey(seed) == generateRandomBytes(200 + seed, SECRET_BOX_KEY_LEN)

\* secretbox(message, nonce, key): the authenticator, then the ciphertext
secretbox(message, nonce, key) ==
  LET body == [i \in 1..Len(message) |->
                 (message[i] + GcmKeystream(key, nonce, i)) % 256]
  IN  GcmTag(key, nonce, body) \o body

\* secretbox.open(box, nonce, key): null (err "null") when the box does not
\* verify
secretboxOpen(box, nonce, key) ==
  IF Len(box) < TAG_LEN THEN Throw("null")
  ELSE LET tag  == SubSeq(box, 1, TAG_LEN)
           body == SubSeq(box, TAG_LEN + 1, Len(box))
       IN  IF tag # GcmTag(key, nonce, body) THEN Throw("null")
           ELSE Ok([i \in 1..Len(body) |->
                      (body[i] + 256 - GcmKeystream(key, nonce, i)) % 256])

secretBoxEncrypt(key, message, urlSafe, nonceSeed) ==
  IF Len(key) # SECRET_BOX_KEY_LEN THEN [err |-> "Invalid key length", val |-> NoWire]
  ELSE LET nonce     == generateRandomBytes(nonceSeed, SECRET_BOX_NONCE_LEN)
           encrypted == secretbox(message, nonce, key)
       IN  Ok(AsString(bytesToBase64(nonce, urlSafe) \o SEPARATOR
                       \o bytesToBase64(encrypted, urlSafe)))

\* a faulty variant: the length of the nonce is not looked at
secretBoxDecryptAnyNonce(key, encrypted) ==
  LET parts      == Split(encrypted, SEPARATOR)
      nonce      == parts[1]
      ciphertext == IF Len(parts) >= 2 THEN parts[2] ELSE <<>>
  IN  IF nonce = <<>> \/ ciphertext = <<>>
      THEN Outcome("Invalid encrypted message", <<>>, <<>>)
      ELSE IF Len(key) # SECRET_BOX_KEY_LEN THEN Outcome("Invalid key length", <<>>, <<>>)
      ELSE
        LET decrypted == secretboxOpen(toBytes(ciphertext), toBytes(nonce), key)
        IN  IF decrypted.err # ""
            THEN Outcome("Could not decrypt message", <<>>, << "secretbox.open" >>)
            ELSE Outcome("", decrypted.val, << "secretbox.open" >>)

\* a faulty variant: the key is looked at before the string
secretBoxDecryptKeyFirst(key, encrypted) ==
  LET parts      == Split(encrypted, SEPARATOR)
      nonce      == parts[1]
      ciphertext == IF Len(parts) >= 2 THEN parts[2] ELSE <<>>
  IN  IF Len(key) # SECRET_BOX_KEY_LEN THEN Outcome("Invalid key length", <<>>, <<>>)
      ELSE IF nonce = <<>> \/ ciphertext = <<>>
      THEN Outcome("Invalid encrypted message", <<>>, <<>>)
      ELSE
        LET nonceBytes == toBytes(nonce)
        IN  IF Len(nonceBytes) # SECRET_BOX_NONCE_LEN
            THEN Outcome("Invalid nonce length", <<>>, <<>>)
            ELSE
              LET decrypted == secretboxOpen(toBytes(ciphertext), nonceBytes, key)
              IN  IF decrypted.err # ""
                  THEN Outcome("Could not decrypt message", <<>>, << "secretbox.open" >>)
                  ELSE Outcome("", decrypted.val, << "secretbox.open" >>)

secretBoxDecrypt(key, encrypted) ==
  LET parts      == Split(encrypted, SEPARATOR)
      nonce      == parts[1]
      ciphertext == IF Len(parts) >= 2 THEN parts[2] ELSE <<>>
  IN  IF nonce = <<>> \/ ciphertext = <<>>
      THEN Outcome("Invalid encrypted message", <<>>, <<>>)
      ELSE IF Len(key) # SECRET_BOX_KEY_LEN THEN Outcome("Invalid key length", <<>>, <<>>)
      ELSE
        LET nonceBytes == toBytes(nonce)
        IN  IF Len(nonceBytes) # SECRET_BOX_NONCE_LEN
            THEN Outcome("Invalid nonce length", <<>>, <<>>)
            ELSE
              LET decrypted == secretboxOpen(toBytes(ciphertext), nonceBytes, key)
              IN  IF decrypted.err # ""
                  THEN Outcome("Could not decrypt message", <<>>, << "secretbox.open" >>)
                  ELSE Outcome("", decrypted.val, << "secretbox.open" >>)

(***************************************************************************)
(* The state: one session of the library.  Key pairs (or secret-box keys)  *)
(* of one scheme are generated, then either one encrypt call produces the  *)
(* value in transit or a caller builds an arbitrary string by hand; the    *)
(* value may be changed once in transit, and one decrypt call consumes it. *)
(***************************************************************************)
VARIABLES
  ecKeys,   \* the EC key pairs generated so far, a sequence
  rsaKeys,  \* the RSA key pairs generated so far
  boxKeys,  \* the secret-box keys generated so far
  sent,     \* the encrypt call that produced the value in transit
  wire,     \* the value in transit
  tamper,   \* what was done to the value after it was produced
  result,   \* the decrypt call made on the value and its outcome
  aesKeys,  \* the AES keys generated or imported so far
  earlier,  \* the encrypt call before the one recorded in sent
  derived,  \* the deriveSharedSecret calls made, each with what it returned
  procs     \* the envelope calls in progress, each at one of its await points

vars == << ecKeys, rsaKeys, boxKeys, sent, wire, tamper, result,
           aesKeys, earlier, derived, procs >>

\* what the operations on one value in transit never touch
otherVars == << aesKeys, earlier, derived, procs >>

keyVars == << ecKeys, rsaKeys, boxKeys >>

MaxKeys == 2

NothingSent ==
  [scheme |-> "none", to |-> 0, message |-> <<>>, returnFormat |-> "",
   urlSafe |-> FALSE, draws |-> <<>>, original |-> NoWire]

NoResult == [op |-> "none", key |-> 0, err |-> "", val |-> <<>>, calls |-> <<>>]

\* the envelope calls that may be in progress at once
MaxProcs == 2

Procs == 1..MaxProcs

\* the local constants of one envelope call, not yet assigned
NoLocals ==
  [aesKey |-> <<>>, encryptedMessage |-> <<>>, aesKeyBytes |-> <<>>,
   encryptedAesKey |-> <<>>]

\* a call that has not started.  op is "encryptEnvelope" or "decryptEnvelope"
\* once it has, pc counts the awaits it has passed, and done says that it
\* has returned val or thrown err.
IdleProc ==
  [op |-> "idle", pc |-> 0, done |-> FALSE, key |-> 0, message |-> <<>>,
   input |-> <<>>, draws |-> <<>>, locals |-> NoLocals, err |-> "", val |-> <<>>]

Init ==
  /\ ecKeys = <<>>
  /\ rsaKeys = <<>>
  /\ boxKeys = <<>>
  /\ sent = NothingSent
  /\ wire = NoWire
  /\ tamper = "none"
  /\ result = NoResult
  /\ aesKeys = <<>>
  /\ earlier = NothingSent
  /\ derived = <<>>
  /\ procs = [p \in Procs |-> IdleProc]

\* generateECKeyPair()
GenerateECKeyPair ==
  /\ sent.scheme = "none" /\ rsaKeys = <<>> /\ boxKeys = <<>>
  /\ Len(ecKeys) < MaxKeys
  /\ \E scalar \in 1..MaxScalar : ecKeys' = Append(ecKeys, generateECKeyPair(scalar))
  /\ UNCHANGED << otherVars, rsaKeys, boxKeys, sent, wire, tamper, result >>

\* generateRSAKeyPair(1024, "bytes")
GenerateRSAKeyPair ==
  /\ sent.scheme = "none" /\ ecKeys = <<>> /\ boxKeys = <<>>
  /\ Len(rsaKeys) < MaxKeys
  /\ \E seed \in 1..MaxScalar : rsaKeys' = Append(rsaKeys, generateRSAKeyPair(seed))
  /\ UNCHANGED << otherVars, ecKeys, boxKeys, sent, wire, tamper, result >>

\* generateSecretBoxKey()
GenerateSecretBoxKey ==
  /\ sent.scheme = "none" /\ ecKeys = <<>> /\ rsaKeys = <<>>
  /\ Len(boxKeys) < MaxKeys
  /\ \E seed \in 1..MaxScalar : boxKeys' = Append(boxKeys, generateSecretBoxKey(seed))
  /\ UNCHANGED << otherVars, ecKeys, rsaKeys, sent, wire, tamper, result >>

\* draws: the seeds the random generator returned during the call, in order
Sent(scheme, to, message, returnFormat, urlSafe, draws, original) ==
  [scheme |-> scheme, to |-> to, message |-> message, returnFormat |-> returnFormat,
   urlSafe |-> urlSafe, draws |-> draws, original |-> original]

\* eciesEncrypt(K.publicKey, message, returnFormat), K the first key pair
EciesEncrypt ==
  /\ sent.scheme = "none" /\ ecKeys # <<>>
  /\ \E message \in Messages, returnFormat \in Formats,
        ephemeralScalar \in 1..MaxScalar, nonceSeed \in NonceSeeds :
       LET out == eciesEncrypt(ecKeys[1].publicKey, message, returnFormat,
                               ephemeralScalar, nonceSeed)
       IN  /\ out.err = ""
           /\ wire' = out.val
           /\ sent' = Sent("ecies", 1, message, returnFormat, FALSE,
                            << ephemeralScalar, nonceSeed >>, out.val)
  /\ UNCHANGED << keyVars, otherVars, tamper, result >>

\* encryptEnvelope(K.publicKey, message), K the first key pair
EncryptEnvelope ==
  /\ sent.scheme = "none" /\ rsaKeys # <<>>
  /\ \E message \in Messages \cup {LongMessage}, aesSeed \in 1..MaxScalar,
        nonceSeed \in NonceSeeds, rsaNonceSeed \in NonceSeeds, oaepSeed \in NonceSeeds :
       LET out == encryptEnvelope(rsaKeys[1].publicKey, message, aesSeed,
                                  nonceSeed, rsaNonceSeed, oaepSeed)
       IN  /\ out.err = ""
           /\ wire' = out.val
           /\ sent' = Sent("envelope", 1, message, "", FALSE,
                            << aesSeed, nonceSeed, rsaNonceSeed, oaepSeed >>, out.val)
  /\ UNCHANGED << keyVars, otherVars, tamper, result >>

\* secretBoxEncrypt(key, message, urlSafe), key the first key
SecretBoxEncrypt ==
  /\ sent.scheme = "none" /\ boxKeys # <<>>
  /\ \E message \in Messages, urlSafe \in BOOLEAN,
        nonceSeed \in NonceSeeds \cup {SeparatorSeed} :
       LET out == secretBoxEncrypt(boxKeys[1], message, urlSafe, nonceSeed)
       IN  /\ out.err = ""
           /\ wire' = out.val
           /\ sent' = Sent("secretbox", 1, message, "", urlSafe, << nonceSeed >>, out.val)
  /\ UNCHANGED << keyVars, otherVars, tamper, result >>

\* a caller builds a string by hand, token by token
Tokens == { SEPARATOR, << "Q", "Q" >> }

RECURSIVE CountTokens(_)
CountTokens(str) ==
  IF str = <<>> THEN 0
  ELSE IF Len(str) >= Len(SEPARATOR) /\ SubSeq(str, 1, Len(SEPARATOR)) = SEPARATOR
       THEN 1 + CountTokens(SubSeq(str, Len(SEPARATOR) + 1, Len(str)))
       ELSE 1 + CountTokens(SubSeq(str, 3, Len(str)))

BuildString ==
  /\ sent.scheme \in {"none", "built"}
  /\ ecKeys # <<>> \/ rsaKeys # <<>> \/ boxKeys # <<>>
  /\ result.op = "none"
  /\ CountTokens(wire.str) < MaxTokens
  /\ \E token \in Tokens : wire' = AsString(wire.str \o token)
  /\ sent' = [NothingSent EXCEPT !.scheme = "built"]
  /\ UNCHANGED << keyVars, otherVars, tamper, result >>

\* The four fields of an ECIES value in transit, as base64 strings, and the
\* value rebuilt with fields changed.
EciesFields(w) ==
  IF w.fmt = "raw" THEN w.rec
  ELSE LET parts == Split(w.str, SEPARATOR)
       IN  [ephemeralPublicKey |-> parts[1], nonce |-> parts[2],
            ciphertext |-> parts[3], mac |-> parts[4]]

WithEciesFields(w, f) ==
  IF w.fmt = "raw" THEN AsRecord(f)
  ELSE AsString(f.ephemeralPublicKey \o SEPARATOR \o f.nonce \o SEPARATOR
                \o f.ciphertext \o SEPARATOR \o f.mac)

Untouched(scheme) == sent.scheme = scheme /\ tamper = "none" /\ result.op = "none"

\* one bit of the mac inverted in transit
FlipMacBit ==
  /\ Untouched("ecies")
  /\ LET f   == EciesFields(wire)
         mac == toBytes(f.mac)
     IN  \E i \in 1..Len(mac), bit \in FlipBits :
           wire' = WithEciesFields(wire,
                     [f EXCEPT !.mac = bytesToBase64(FlipBitAt(mac, i, bit), FALSE)])
  /\ tamper' = "mac"
  /\ UNCHANGED << keyVars, otherVars, sent, result >>

\* one bit of the ciphertext body inverted in transit
FlipCiphertextBit ==
  /\ Untouched("ecies")
  /\ LET f    == EciesFields(wire)
         body == toBytes(f.ciphertext)
     IN  \E i \in 1..Len(body), bit \in FlipBits :
           wire' = WithEciesFields(wire,
                     [f EXCEPT !.ciphertext = bytesToBase64(FlipBitAt(body, i, bit), FALSE)])
  /\ tamper' = "ciphertext"
  /\ UNCHANGED << keyVars, otherVars, sent, result >>

\* the ciphertext body cut short in transit
TruncateCiphertext ==
  /\ Untouched("ecies")
  /\ LET f    == EciesFields(wire)
         body == toBytes(f.ciphertext)
     IN  \E keep \in 0..(Len(body) - 1) :
           wire' = WithEciesFields(wire,
                     [f EXCEPT !.ciphertext = bytesToBase64(SubSeq(body, 1, keep), FALSE)])
  /\ tamper' = "truncated"
  /\ UNCHANGED << keyVars, otherVars, sent, result >>

\* one bit of the second part of an envelope or a secret box (the sealed
\* message) inverted in transit
FlipSealedBit ==
  /\ Untouched("envelope") \/ Untouched("secretbox")
  /\ LET parts  == Split(wire.str, SEPARATOR)
         sealed == toBytes(parts[2])
     IN  \E i \in 1..Len(sealed), bit \in FlipBits :
           wire' = AsString(parts[1] \o SEPARATOR
                            \o bytesToBase64(FlipBitAt(sealed, i, bit), sent.urlSafe))
  /\ tamper' = "sealed"
  /\ UNCHANGED << keyVars, otherVars, sent, result >>

\* a further separator-delimited part, empty or not, added behind the value
AppendPart ==
  /\ Untouched("ecies") \/ Untouched("envelope") \/ Untouched("secretbox")
  /\ wire.fmt = "string"
  /\ \E extra \in { <<>>, << "Q", "Q" >> } :
       wire' = AsString(wire.str \o SEPARATOR \o extra)
  /\ tamper' = "appended"
  /\ UNCHANGED << keyVars, otherVars, sent, result >>

Result(op, key, out) ==
  [op |-> op, key |-> key, err |-> out.err, val |-> out.val, calls |-> out.calls]

\* eciesDecrypt(K.privateKey, wire), K any key pair
EciesDecrypt ==
  /\ wire.fmt # "none"
  /\ result.op = "none"
  /\ \E id \in 1..Len(ecKeys) :
       result' = Result("eciesDecrypt", id, eciesDecrypt(ecKeys[id].privateKey, wire))
  /\ UNCHANGED << keyVars, otherVars, sent, wire, tamper >>

\* decryptEnvelope(K.privateKey, wire), K any key pair
DecryptEnvelope ==
  /\ wire.fmt = "string"
  /\ result.op = "none"
  /\ \E id \in 1..Len(rsaKeys) :
       result' = Result("decryptEnvelope", id,
                        decryptEnvelope(rsaKeys[id].privateKey, wire.str))
  /\ UNCHANGED << keyVars, otherVars, sent, wire, tamper >>

\* secretBoxDecrypt(key, wire), any key
SecretBoxDecrypt ==
  /\ wire.fmt = "string"
  /\ result.op = "none"
  /\ \E id \in 1..Len(boxKeys) :
       result' = Result("secretBoxDecrypt", id, secretBoxDecrypt(boxKeys[id], wire.str))
  /\ UNCHANGED << keyVars, otherVars, sent, wire, tamper >>

(***************************************************************************)
(* The AES-GCM helpers on their own: keys generated and re-imported, one   *)
(* aesEncrypt output handed over, altered or not, and given to aesDecrypt. *)
(***************************************************************************)
AesEncodings == {"", "bytes", "base64"}

\* generateAESKey(): origin names the generated key a key holds the bytes of
GenerateAESKey ==
  /\ sent.scheme = "none"
  /\ Len(aesKeys) < MaxKeys
  /\ \E seed \in 1..MaxScalar :
       /\ \A id \in 1..Len(aesKeys) : aesKeys[id].key # generateAESKey(seed)
       /\ aesKeys' = Append(aesKeys, [key |-> generateAESKey(seed),
                                      origin |-> Len(aesKeys) + 1])
  /\ UNCHANGED << ecKeys, rsaKeys, boxKeys, sent, wire, tamper, result,
                  earlier, derived, procs >>

\* toAESKey(exportAESKey(key, encoding)), the base64 form decoded with toBytes
ImportAESKey ==
  /\ sent.scheme = "none"
  /\ Len(aesKeys) < MaxKeys
  /\ \E id \in 1..Len(aesKeys), encoding \in AesEncodings :
       LET exported == exportAESKey(aesKeys[id].key, encoding)
           keyBytes == IF encoding = "base64" THEN toBytes(exported) ELSE exported
           imported == toAESKey(keyBytes)
       IN  /\ imported.err = ""
           /\ aesKeys' = Append(aesKeys, [key |-> imported.val,
                                          origin |-> aesKeys[id].origin])
  /\ UNCHANGED << ecKeys, rsaKeys, boxKeys, sent, wire, tamper, result,
                  earlier, derived, procs >>

\* aesEncrypt(key, message, encoding), key the first key
AesEncrypt ==
  /\ sent.scheme = "none" /\ aesKeys # <<>>
  /\ \E message \in Messages, encoding \in AesEncodings, nonceSeed \in NonceSeeds :
       LET out == aesEncryptAs(aesKeys[1].key, message, encoding, nonceSeed)
       IN  /\ out.err = ""
           /\ wire' = out.val
           /\ sent' = Sent("aes", 1, message, encoding, FALSE, << nonceSeed >>, out.val)
  /\ UNCHANGED << keyVars, otherVars, tamper, result >>

\* aesEncrypt(key, message, returnFormat) of rsa/envelope-helpers.ts, key
\* the first key
AesEncryptHelper ==
  /\ sent.scheme = "none" /\ aesKeys # <<>>
  /\ \E message \in Messages, returnFormat \in AesEncodings, nonceSeed \in NonceSeeds :
       LET out == aesEncryptHelper(aesKeys[1].key, message, returnFormat, nonceSeed)
       IN  /\ out.err = ""
           /\ wire' = out.val
           /\ sent' = Sent("aes", 1, message, returnFormat, TRUE, << nonceSeed >>, out.val)
  /\ UNCHANGED << keyVars, otherVars, tamper, result >>

\* the Uint8Array a caller gives to aesDecrypt: the bytes returned, or the
\* string returned decoded with toBytes
AesWireBytes(w) == IF w.fmt = "string" THEN toBytes(w.str) ELSE w.str

\* bytes put back in the form w has
AesWireOf(w, bytes) ==
  IF w.fmt = "string" THEN AsString(bytesToBase64(bytes, sent.urlSafe)) ELSE AsBytes(bytes)

\* one byte of an aesEncrypt output (nonce, body or tag) changed in transit
ChangeAesByte ==
  /\ Untouched("aes")
  /\ LET c == AesWireBytes(wire)
     IN  \E i \in 1..Len(c), bit \in FlipBits :
           wire' = AesWireOf(wire, FlipBitAt(c, i, bit))
  /\ tamper' = "byte"
  /\ UNCHANGED << keyVars, otherVars, sent, result >>

\* an aesEncrypt output cut short at its tail
TruncateAesTail ==
  /\ Untouched("aes")
  /\ LET c == AesWireBytes(wire)
     IN  \E keep \in 0..(Len(c) - 1) :
           wire' = AesWireOf(wire, SubSeq(c, 1, keep))
  /\ tamper' = "tail"
  /\ UNCHANGED << keyVars, otherVars, sent, result >>

\* aesDecrypt(key, wire), any key
AesDecrypt ==
  /\ sent.scheme = "aes"
  /\ result.op = "none"
  /\ \E id \in 1..Len(aesKeys) :
       LET out == aesDecrypt(aesKeys[id].key, AesWireBytes(wire))
       IN  result' = Result("aesDecrypt", id,
                            [err |-> out.err, val |-> out.val, calls |-> <<>>])
  /\ UNCHANGED << keyVars, otherVars, sent, wire, tamper >>

(***************************************************************************)
(* rsaEncrypt and rsaDecrypt on their own: one rsaEncrypt call, its output *)
(* handed over, altered or not, and given to rsaDecrypt.                   *)
(***************************************************************************)
\* the longest message RSA-OAEP with SHA-256 takes under the generated keys
RsaCapacity == MODULUS_BYTES - 2 * HASH_LEN - 2

RsaMessage(n) == [i \in 1..n |-> (i * 11 + 3) % 256]

\* the messages given to rsaEncrypt: short ones, the longest that fits, the
\* shortest that does not, and one a whole modulus long
RsaMessages ==
  { <<>>, << 0, 255 >>, RsaMessage(RsaCapacity), RsaMessage(RsaCapacity + 1),
    LongMessage }

\* rsaEncrypt(K.publicKey, message, encoding), K the first key pair; a call
\* that throws leaves its error in result
RsaEncrypt ==
  /\ sent.scheme = "none" /\ rsaKeys # <<>>
  /\ \E message \in RsaMessages, encoding \in AesEncodings,
        nonceSeed \in NonceSeeds, oaepSeed \in NonceSeeds :
       LET out == rsaEncryptAs(rsaKeys[1].publicKey, message, encoding,
                               nonceSeed, oaepSeed)
       IN  IF out.err = ""
           THEN /\ wire' = out.val
                /\ sent' = Sent("rsa", 1, message, encoding, FALSE,
                                 << nonceSeed, oaepSeed >>, out.val)
                /\ UNCHANGED result
           ELSE /\ sent' = Sent("rsa", 1, message, encoding, FALSE,
                                 << nonceSeed, oaepSeed >>, NoWire)
                /\ result' = Result("rsaEncrypt", 1,
                                    [err |-> out.err, val |-> <<>>, calls |-> <<>>])
                /\ UNCHANGED wire
  /\ UNCHANGED << keyVars, otherVars, tamper >>

\* the first 12 bytes of an rsaEncrypt output replaced by other bytes: one
\* bit inverted, or a nonce of another draw
ReplaceRsaPrefix ==
  /\ Untouched("rsa") /\ wire.fmt # "none"
  /\ LET c == AesWireBytes(wire)
     IN  \/ \E i \in 1..DEFAULT_NONCE_LENGTH, bit \in FlipBits :
               wire' = AesWireOf(wire, FlipBitAt(c, i, bit))
         \/ \E seed \in (NonceSeeds \cup {SeparatorSeed}) \ {sent.draws[1]} :
               wire' = AesWireOf(wire,
                         generateRandomBytes(seed, DEFAULT_NONCE_LENGTH)
                           \o Slice(c, DEFAULT_NONCE_LENGTH, Len(c)))
  /\ tamper' = "prefix"
  /\ UNCHANGED << keyVars, otherVars, sent, result >>

\* one byte behind the first 12 of an rsaEncrypt output changed
ChangeRsaBlock ==
  /\ Untouched("rsa") /\ wire.fmt # "none"
  /\ LET c == AesWireBytes(wire)
     IN  \E i \in (DEFAULT_NONCE_LENGTH + 1)..Len(c), bit \in FlipBits :
           wire' = AesWireOf(wire, FlipBitAt(c, i, bit))
  /\ tamper' = "block"
  /\ UNCHANGED << keyVars, otherVars, sent, result >>

\* rsaDecrypt(K.privateKey, wire), K any key pair; a string is decoded
\* with toBytes by the caller
RsaDecrypt ==
  /\ sent.scheme = "rsa" /\ wire.fmt # "none"
  /\ result.op = "none"
  /\ \E id \in 1..Len(rsaKeys) :
       result' = Result("rsaDecrypt", id,
                        rsaDecrypt(rsaKeys[id].privateKey, AesWireBytes(wire)))
  /\ UNCHANGED << keyVars, otherVars, sent, wire, tamper >>

(***************************************************************************)
(* The secret box given keys of any length: a caller may hand over a key   *)
(* that generateSecretBoxKey did not make.                                 *)
(***************************************************************************)
\* key lengths other than SECRET_BOX_KEY_LEN a caller may come with
OtherKeyLengths == {16, 33}

BoxMessages == { <<>>, << 0, 255 >> }

\* a key of another length, as new Uint8Array(16) in the tests
TakeKeyOfLength ==
  /\ sent.scheme = "none" /\ ecKeys = <<>> /\ rsaKeys = <<>>
  /\ Len(boxKeys) < MaxKeys
  /\ \E n \in OtherKeyLengths : boxKeys' = Append(boxKeys, [i \in 1..n |-> 0])
  /\ UNCHANGED << otherVars, ecKeys, rsaKeys, sent, wire, tamper, result >>

\* secretBoxEncrypt(key, message, urlSafe), any key; a call that throws
\* leaves its error in result
SecretBoxEncryptWith ==
  /\ sent.scheme = "none"
  /\ \E id \in 1..Len(boxKeys), message \in BoxMessages, urlSafe \in BOOLEAN,
        nonceSeed \in NonceSeeds :
       LET out == secretBoxEncrypt(boxKeys[id], message, urlSafe, nonceSeed)
       IN  /\ sent' = Sent("secretbox", id, message, "", urlSafe, << nonceSeed >>, out.val)
           /\ wire' = out.val
           /\ result' = IF out.err = "" THEN result
                        ELSE Result("secretBoxEncrypt", id,
                                    [err |-> out.err, val |-> <<>>, calls |-> <<>>])
  /\ UNCHANGED << keyVars, otherVars, tamper >>

\* the nonce part replaced by a shorter nonce, or by nothing
ShortenNonce ==
  /\ Untouched("secretbox")
  /\ wire.fmt = "string"
  /\ LET parts == Split(wire.str, SEPARATOR)
         nonce == toBytes(parts[1])
     IN  \E keep \in {0, 12, SECRET_BOX_NONCE_LEN - 1} :
           wire' = AsString(bytesToBase64(Slice(nonce, 0, keep), sent.urlSafe)
                            \o SEPARATOR \o parts[2])
  /\ tamper' = "nonce"
  /\ UNCHANGED << keyVars, otherVars, sent, result >>

(***************************************************************************)
(* The ephemeral public key and the nonce of an eciesEncrypt output        *)
(* replaced in transit.                                                    *)
(***************************************************************************)
\* byte arrays put in the place of the ephemeral public key: the public keys
\* of other scalars, a point not on the curve, too short a value, nothing
OtherEphemeralKeys ==
  { PointBytes(ModExp(CurveG, e, CurveP)) : e \in 1..(MaxScalar + 2) }
    \cup { [i \in 1..POINT_LEN |-> 0], << 2, 4 >>, <<>> }

\* the same bytes written as another base64 string: with a padding
\* character behind, which toBytes drops
Repadded(base64) == base64 \o << "=" >>

\* the ephemeralPublicKey field replaced by the encoding of other bytes
ReplaceEphemeralKey ==
  /\ Untouched("ecies")
  /\ LET f == EciesFields(wire)
     IN  \E other \in OtherEphemeralKeys :
           /\ other # toBytes(f.ephemeralPublicKey)
           /\ wire' = WithEciesFields(wire,
                        [f EXCEPT !.ephemeralPublicKey = bytesToBase64(other, FALSE)])
  /\ tamper' = "ephemeral"
  /\ UNCHANGED << keyVars, otherVars, sent, result >>

\* the nonce field changed: one bit inverted, or the last byte dropped
ChangeNonce ==
  /\ Untouched("ecies")
  /\ LET f     == EciesFields(wire)
         nonce == toBytes(f.nonce)
     IN  \/ \E i \in 1..Len(nonce), bit \in FlipBits :
               wire' = WithEciesFields(wire,
                         [f EXCEPT !.nonce = bytesToBase64(FlipBitAt(nonce, i, bit), FALSE)])
         \/ wire' = WithEciesFields(wire,
                       [f EXCEPT !.nonce = bytesToBase64(Slice(nonce, 0, Len(nonce) - 1), FALSE)])
  /\ tamper' = "nonce"
  /\ UNCHANGED << keyVars, otherVars, sent, result >>

\* the ephemeralPublicKey field or the nonce field replaced by another
\* string that stands for the same bytes
ReencodeField ==
  /\ Untouched("ecies")
  /\ LET f == EciesFields(wire)
     IN  \/ wire' = WithEciesFields(wire,
                       [f EXCEPT !.ephemeralPublicKey = Repadded(f.ephemeralPublicKey)])
         \/ wire' = WithEciesFields(wire, [f EXCEPT !.nonce = Repadded(f.nonce)])
  /\ tamper' = "reencoded"
  /\ UNCHANGED << keyVars, otherVars, sent, result >>

(***************************************************************************)
(* encrypt and decrypt of ecies/encrypt.ts and ecies/decrypt.ts: keys and  *)
(* fields in hexadecimal.                                                  *)
(***************************************************************************)
\* encrypt(bytesToHex(K.publicKey), message), K the first key pair
EciesHexEncrypt ==
  /\ sent.scheme = "none" /\ ecKeys # <<>>
  /\ \E message \in Messages, ephemeralScalar \in 1..MaxScalar, nonceSeed \in NonceSeeds :
       LET out == encrypt(bytesToHex(ecKeys[1].publicKey), message,
                          ephemeralScalar, nonceSeed)
       IN  /\ out.err = ""
           /\ wire' = out.val
           /\ sent' = Sent("hex", 1, message, "", FALSE,
                            << ephemeralScalar, nonceSeed >>, out.val)
  /\ UNCHANGED << keyVars, otherVars, tamper, result >>

HexFields == {"nonce", "ciphertext", "mac"}

HexFieldOf(rec, field) ==
  IF field = "nonce" THEN rec.nonce
  ELSE IF field = "ciphertext" THEN rec.ciphertext
  ELSE rec.mac

WithHexField(rec, field, hex) ==
  IF field = "nonce" THEN [rec EXCEPT !.nonce = hex]
  ELSE IF field = "ciphertext" THEN [rec EXCEPT !.ciphertext = hex]
  ELSE [rec EXCEPT !.mac = hex]

\* one bit of the nonce, the ciphertext or the mac inverted in transit
ChangeHexField ==
  /\ Untouched("hex")
  /\ \E field \in HexFields :
       LET bytes == hexToBytes(HexFieldOf(wire.rec, field)).val
       IN  \E i \in 1..Len(bytes), bit \in FlipBits :
             wire' = AsHexRecord(WithHexField(wire.rec, field,
                                              bytesToHex(FlipBitAt(bytes, i, bit))))
  /\ tamper' = "field"
  /\ UNCHANGED << keyVars, otherVars, sent, result >>

\* decrypt(bytesToHex(K.privateKey), wire), K any key pair
EciesHexDecrypt ==
  /\ sent.scheme = "hex"
  /\ result.op = "none"
  /\ \E id \in 1..Len(ecKeys) :
       result' = Result("decrypt", id,
                        decrypt(bytesToHex(ecKeys[id].privateKey), wire.rec))
  /\ UNCHANGED << keyVars, otherVars, sent, wire, tamper >>

\* a second eciesEncrypt call to the same public key; the call before it is
\* kept in earlier
EciesEncryptAgain ==
  /\ Untouched("ecies") /\ earlier.scheme = "none"
  /\ \E message \in Messages, returnFormat \in Formats,
        ephemeralScalar \in 1..MaxScalar, nonceSeed \in NonceSeeds :
       LET out == eciesEncrypt(ecKeys[sent.to].publicKey, message, returnFormat,
                               ephemeralScalar, nonceSeed)
       IN  /\ out.err = ""
           /\ wire' = out.val
           /\ sent' = Sent("ecies", sent.to, message, returnFormat, FALSE,
                            << ephemeralScalar, nonceSeed >>, out.val)
  /\ earlier' = sent
  /\ UNCHANGED << keyVars, tamper, result, aesKeys, derived, procs >>

\* a second encryptEnvelope call to the same public key
EncryptEnvelopeAgain ==
  /\ Untouched("envelope") /\ earlier.scheme = "none"
  /\ \E message \in Messages \cup {LongMessage}, aesSeed \in 1..MaxScalar,
        nonceSeed \in NonceSeeds, rsaNonceSeed \in NonceSeeds, oaepSeed \in NonceSeeds :
       LET out == encryptEnvelope(rsaKeys[sent.to].publicKey, message, aesSeed,
                                  nonceSeed, rsaNonceSeed, oaepSeed)
       IN  /\ out.err = ""
           /\ wire' = out.val
           /\ sent' = Sent("envelope", sent.to, message, "", FALSE,
                            << aesSeed, nonceSeed, rsaNonceSeed, oaepSeed >>, out.val)
  /\ earlier' = sent
  /\ UNCHANGED << keyVars, tamper, result, aesKeys, derived, procs >>

(***************************************************************************)
(* encryptEnvelope and decryptEnvelope as they run on the event loop: each *)
(* call is a process that gives way to the others at each of its awaits.   *)
(***************************************************************************)
\* the messages of the concurrent calls
ProcMessages == { <<>>, << 0, 255 >> }

\* a faulty variant: the constants of the first call are read by every call
SharedLocals(ps, p) == ps[1].locals

\* the local constants (aesKey, encryptedMessage, ...) call p reads
Locals(ps, p) == ps[p].locals

Running(p, op, pc) ==
  /\ procs[p].op = op
  /\ ~procs[p].done
  /\ procs[p].pc = pc

procUnchanged == << keyVars, sent, wire, tamper, result, aesKeys, earlier, derived >>

\* encryptEnvelope(K.publicKey, message) is called
StartEncryptEnvelope ==
  /\ \E p \in Procs, key \in 1..Len(rsaKeys), message \in ProcMessages :
       /\ procs[p].op = "idle"
       /\ procs' = [procs EXCEPT ![p] =
                      [IdleProc EXCEPT !.op = "encryptEnvelope", !.key = key,
                                       !.message = message]]
  /\ UNCHANGED procUnchanged

\* const aesKey = await generateAESKey()
EnvelopeGenerateKey ==
  /\ \E p \in Procs, aesSeed \in 1..MaxScalar :
       /\ Running(p, "encryptEnvelope", 0)
       /\ procs' = [procs EXCEPT ![p].pc = 1,
                                 ![p].draws = << aesSeed >>,
                                 ![p].locals.aesKey = generateAESKey(aesSeed)]
  /\ UNCHANGED procUnchanged

\* const encryptedMessage = await aesEncrypt(aesKey, message, "base64")
EnvelopeEncryptMessage ==
  /\ \E p \in Procs, nonceSeed \in NonceSeeds :
       /\ Running(p, "encryptEnvelope", 1)
       /\ procs' = [procs EXCEPT ![p].pc = 2,
                                 ![p].draws = Append(@, nonceSeed),
                                 ![p].locals.encryptedMessage =
                                    aesEncrypt(Locals(procs, p).aesKey,
                                               procs[p].message, nonceSeed)]
  /\ UNCHANGED procUnchanged

\* const aesKeyBytes = await exportAESKey(aesKey)
EnvelopeExportKey ==
  /\ \E p \in Procs :
       /\ Running(p, "encryptEnvelope", 2)
       /\ procs' = [procs EXCEPT ![p].pc = 3,
                                 ![p].locals.aesKeyBytes = Locals(procs, p).aesKey]
  /\ UNCHANGED procUnchanged

\* const encryptedAesKey = await rsaEncrypt(publicKey, aesKeyBytes, "base64");
\* return encryptedAesKey + SEPARATOR + encryptedMessage
EnvelopeWrapKey ==
  /\ \E p \in Procs, rsaNonceSeed \in NonceSeeds, oaepSeed \in NonceSeeds :
       /\ Running(p, "encryptEnvelope", 3)
       /\ LET encryptedAesKey == rsaEncrypt(rsaKeys[procs[p].key].publicKey,
                                            Locals(procs, p).aesKeyBytes,
                                            rsaNonceSeed, oaepSeed)
          IN  procs' = [procs EXCEPT
                          ![p].pc = 4,
                          ![p].done = TRUE,
                          ![p].draws = @ \o << rsaNonceSeed, oaepSeed >>,
                          ![p].locals.encryptedAesKey = encryptedAesKey.val,
                          ![p].err = encryptedAesKey.err,
                          ![p].val = IF encryptedAesKey.err # "" THEN <<>>
                                     ELSE EnvelopeConcat(encryptedAesKey.val,
                                            Locals(procs, p).encryptedMessage)]
  /\ UNCHANGED procUnchanged

\* an envelope made before the calls at hand: what encryptEnvelope returned
\* for a message of ProcMessages under a generated public key
EarlierEnvelope(k, m) ==
  encryptEnvelope(rsaKeys[k].publicKey, m, 1, 1, 1, 1).val.str

\* decryptEnvelope(K.privateKey, envelopedCipher) is called: the string is
\* split and looked at before the first await
StartDecryptEnvelope ==
  /\ \E p \in Procs, k \in 1..Len(rsaKeys), m \in ProcMessages :
       /\ procs[p].op = "idle"
       /\ \E key \in 1..Len(rsaKeys) :
            LET envelopedCipher  == EarlierEnvelope(k, m)
                parts            == Split(envelopedCipher, SEPARATOR)
                encryptedAesKey  == parts[1]
                encryptedMessage == IF Len(parts) >= 2 THEN parts[2] ELSE <<>>
                malformed        == encryptedMessage = <<>> \/ encryptedAesKey = <<>>
            IN  procs' = [procs EXCEPT ![p] =
                         [IdleProc EXCEPT
                            !.op = "decryptEnvelope",
                            !.key = key,
                            !.input = envelopedCipher,
                            !.done = malformed,
                            !.err = IF malformed THEN "Invalid encrypted message" ELSE "",
                            !.locals.encryptedAesKey = encryptedAesKey,
                            !.locals.encryptedMessage = encryptedMessage]]
  /\ UNCHANGED procUnchanged

\* await rsaDecrypt(privateKey, toBytes(encryptedAesKey))
EnvelopeUnwrapKey ==
  /\ \E p \in Procs :
       /\ Running(p, "decryptEnvelope", 0)
       /\ LET keyBytes == rsaDecrypt(rsaKeys[procs[p].key].privateKey,
                                     toBytes(Locals(procs, p).encryptedAesKey))
          IN  procs' = [procs EXCEPT ![p].pc = 1,
                                    ![p].done = keyBytes.err # "",
                                    ![p].err = keyBytes.err,
                                    ![p].locals.aesKeyBytes = keyBytes.val]
  /\ UNCHANGED procUnchanged

\* const aesKey = await toAESKey(...)
EnvelopeImportKey ==
  /\ \E p \in Procs :
       /\ Running(p, "decryptEnvelope", 1)
       /\ LET aesKey == toAESKey(Locals(procs, p).aesKeyBytes)
          IN  procs' = [procs EXCEPT ![p].pc = 2,
                                    ![p].done = aesKey.err # "",
                                    ![p].err = aesKey.err,
                                    ![p].locals.aesKey = aesKey.val]
  /\ UNCHANGED procUnchanged

\* const message = await aesDecrypt(aesKey, toBytes(encryptedMessage));
\* return message
EnvelopeDecryptMessage ==
  /\ \E p \in Procs :
       /\ Running(p, "decryptEnvelope", 2)
       /\ LET message == aesDecrypt(Locals(procs, p).aesKey,
                                    toBytes(Locals(procs, p).encryptedMessage))
          IN  procs' = [procs EXCEPT ![p].pc = 3,
                                    ![p].done = TRUE,
                                    ![p].err = message.err,
                                    ![p].val = message.val]
  /\ UNCHANGED procUnchanged

\* deriveSharedSecret(A.privateKey, B.publicKey, encoding) for key pairs A
\* and B, each key handed over as bytes or as base64
MaxDerived == 2

KeyEncodings == {"bytes", "base64"}

DeriveSharedSecret ==
  /\ Len(derived) < MaxDerived
  /\ \E a \in 1..Len(ecKeys), b \in 1..Len(ecKeys),
        privateKeyAs \in KeyEncodings, publicKeyAs \in KeyEncodings,
        encoding \in {""} \cup KeyEncodings :
       LET out == deriveSharedSecretAs(Encoded(ecKeys[a].privateKey, privateKeyAs),
                                       Encoded(ecKeys[b].publicKey, publicKeyAs),
                                       encoding)
       IN  derived' = Append(derived,
                        [a |-> a, b |-> b, privateKeyAs |-> privateKeyAs,
                         publicKeyAs |-> publicKeyAs, encoding |-> encoding,
                         err |-> out.err, val |-> out.val])
  /\ UNCHANGED << keyVars, sent, wire, tamper, result, aesKeys, earlier, procs >>

\* the byte arrays given to deriveHKDFKey
HkdfInputs == { <<>>, << 0 >>, << 255, 1 >> }

\* deriveHKDFKey(keyMaterial, salt, info, encoding), one more call
DeriveHKDFKey ==
  /\ Len(derived) < MaxDerived
  /\ \E keyMaterial \in HkdfInputs, salt \in HkdfInputs, info \in {<<>>, INFO},
        encoding \in {""} \cup KeyEncodings :
       LET out == deriveHKDFKeyAs(keyMaterial, salt, info, encoding)
       IN  derived' = Append(derived,
                        [keyMaterial |-> keyMaterial, salt |-> salt, info |-> info,
                         encoding |-> encoding, err |-> out.err, val |-> out.val])
  /\ UNCHANGED << keyVars, sent, wire, tamper, result, aesKeys, earlier, procs >>

Next ==
  \/ GenerateECKeyPair
  \/ GenerateRSAKeyPair
  \/ GenerateSecretBoxKey
  \/ EciesEncrypt
  \/ EncryptEnvelope
  \/ SecretBoxEncrypt
  \/ BuildString
  \/ FlipMacBit
  \/ FlipCiphertextBit
  \/ TruncateCiphertext
  \/ FlipSealedBit
  \/ AppendPart
  \/ EciesDecrypt
  \/ DecryptEnvelope
  \/ SecretBoxDecrypt

Spec == Init /\ [][Next]_vars

(***************************************************************************)
(* Vocabulary of the properties.                                           *)
(***************************************************************************)
\* the separator-delimited parts of the string in transit
WireParts == Split(wire.str, SEPARATOR)

HasEmptyPart(parts) == \E i \in 1..Len(parts) : parts[i] = <<>>

\* the error of the AEAD when the tag does not verify
AuthenticationError == "aes/gcm: invalid ghash tag"

\* the errors of parseEciesCipherString
EciesMalformed ==
  { "Invalid encrypted data format", "Missing required parts in encrypted data" }

\* the error of decryptEnvelope for a string it does not take for an envelope
EnvelopeMalformed == "Invalid encrypted message"

\* op was called, with the private key of the recipient, on exactly what the
\* encrypt call of the scheme returned
Honest(scheme, op) ==
  /\ sent.scheme = scheme
  /\ tamper = "none"
  /\ result.op = op
  /\ result.key = sent.to

Returned(message) == result.err = "" /\ result.val = message

Failed == result.err # "" /\ result.val = <<>>

(***************************************************************************)
(* C1: eciesDecrypt(K.privateKey, eciesEncrypt(K.publicKey, M)), with the  *)
(* format omitted or "base64", returns exactly M, for every message M, the *)
(* zero-length message included.                                           *)
(***************************************************************************)
C1_EciesRoundTripString ==
  (Honest("ecies", "eciesDecrypt") /\ sent.returnFormat \in {"", "base64"})
    => Returned(sent.message)

(***************************************************************************)
(* C2: eciesDecrypt(K.privateKey, eciesEncrypt(K.publicKey, M, "raw"))     *)
(* returns exactly M, for every message M, the empty message included.     *)
(***************************************************************************)
C2_EciesRoundTripRaw ==
  (Honest("ecies", "eciesDecrypt") /\ sent.returnFormat = "raw")
    => Returned(sent.message)

\* the empty message has gone through the record and come back
C2_EmptyMessageReturned ==
  /\ Honest("ecies", "eciesDecrypt")
  /\ sent.returnFormat = "raw"
  /\ wire.fmt = "raw"
  /\ sent.message = <<>>
  /\ Returned(<<>>)

(***************************************************************************)
(* C3: decryptEnvelope(K.privateKey, encryptEnvelope(K.publicKey, M))      *)
(* returns exactly M, for every message M, the empty message and messages  *)
(* longer than one RSA-OAEP block can hold included.                       *)
(***************************************************************************)
C3_EnvelopeRoundTrip ==
  Honest("envelope", "decryptEnvelope") => Returned(sent.message)

\* a message beyond the RSA-OAEP capacity has come back
C3_LongMessageReturned ==
  /\ Honest("envelope", "decryptEnvelope")
  /\ Len(sent.message) > MODULUS_BYTES - 2 * HASH_LEN - 2
  /\ Returned(sent.message)

(***************************************************************************)
(* C4: after one bit of the mac field or of the ciphertext field of an     *)
(* honest ECIES ciphertext is changed, or the ciphertext field is cut      *)
(* short, eciesDecrypt with the recipient's private key fails with the     *)
(* authentication error and returns no plaintext.                          *)
(***************************************************************************)
C4_EciesTamperDetected ==
  ( /\ sent.scheme = "ecies"
    /\ tamper \in {"mac", "ciphertext", "truncated"}
    /\ result.op = "eciesDecrypt"
    /\ result.key = sent.to )
    => (result.err = AuthenticationError /\ result.val = <<>>)

(***************************************************************************)
(* C5: what was encrypted to the public key of one key pair is rejected by *)
(* eciesDecrypt, and by decryptEnvelope, under the private key of another  *)
(* key pair: the call fails and returns no bytes.                          *)
(***************************************************************************)
WrongKey(scheme, op, keys) ==
  /\ sent.scheme = scheme
  /\ tamper = "none"
  /\ result.op = op
  /\ keys[result.key] # keys[sent.to]

C5_WrongKeyRejected ==
  (WrongKey("ecies", "eciesDecrypt", ecKeys)
     \/ WrongKey("envelope", "decryptEnvelope", rsaKeys))
    => Failed

\* a non-empty message, encrypted to one key pair, was refused under another
C5_OtherKeyRefused ==
  /\ WrongKey("ecies", "eciesDecrypt", ecKeys)
  /\ sent.message # <<>>
  /\ result.err = AuthenticationError

(***************************************************************************)
(* C6: eciesDecrypt, decryptEnvelope and secretBoxDecrypt each end in one  *)
(* of two ways: the call fails and returns nothing, or it returns the      *)
(* whole plaintext whose sealing, under the key the call arrives at and    *)
(* the nonce in the input, is the ciphertext and tag the input carries.    *)
(***************************************************************************)
EciesCarries(privateKey, w, message) ==
  LET f      == EciesFields(w)
      eph    == toBytes(f.ephemeralPublicKey)
      shared == deriveSharedSecret(privateKey, eph)
  IN  /\ shared.err = ""
      /\ gcmEncrypt(deriveHKDFKey(shared.val, eph, INFO), toBytes(f.nonce), message).val
           = toBytes(f.ciphertext) \o toBytes(f.mac)

EnvelopeCarries(privateKey, str, message) ==
  LET parts  == Split(str, SEPARATOR)
      key    == rsaDecrypt(privateKey, toBytes(parts[1]))
      sealed == toBytes(parts[2])
  IN  /\ key.err = ""
      /\ Len(sealed) >= DEFAULT_NONCE_LENGTH
      /\ gcmEncrypt(key.val, SubSeq(sealed, 1, DEFAULT_NONCE_LENGTH), message).val
           = SubSeq(sealed, DEFAULT_NONCE_LENGTH + 1, Len(sealed))

BoxCarries(key, str, message) ==
  LET parts == Split(str, SEPARATOR)
  IN  secretbox(message, toBytes(parts[1]), key) = toBytes(parts[2])

C6_NoPartialResults ==
  result.op # "none" =>
    \/ Failed
    \/ /\ result.err = ""
       /\ CASE result.op = "eciesDecrypt" ->
                 EciesCarries(ecKeys[result.key].privateKey, wire, result.val)
            [] result.op = "decryptEnvelope" ->
                 EnvelopeCarries(rsaKeys[result.key].privateKey, wire.str, result.val)
            [] result.op = "secretBoxDecrypt" ->
                 BoxCarries(boxKeys[result.key], wire.str, result.val)

\* an envelope whose sealed message was changed in transit gave nothing
C6_ChangedEnvelopeGaveNothing ==
  /\ sent.scheme = "envelope"
  /\ tamper = "sealed"
  /\ sent.message # <<>>
  /\ result.op = "decryptEnvelope"
  /\ result.key = sent.to
  /\ Failed

(***************************************************************************)
(* C7: eciesDecrypt takes a string for a ciphertext exactly when splitting *)
(* it on the separator gives four parts none of which is empty; any other  *)
(* string fails with one of the parser's errors.                           *)
(***************************************************************************)
C7_EciesStringParsing ==
  (result.op = "eciesDecrypt" /\ wire.fmt = "string") =>
    ((Len(WireParts) = 4 /\ ~HasEmptyPart(WireParts)) <=> result.err \notin EciesMalformed)

\* a string of four parts, one of them empty, was refused by the parser
C7_EmptyPartRefused ==
  /\ sent.scheme = "built"
  /\ result.op = "eciesDecrypt"
  /\ Len(WireParts) = 4
  /\ HasEmptyPart(WireParts)
  /\ result.err = "Missing required parts in encrypted data"

(***************************************************************************)
(* C8: decryptEnvelope takes a string for an envelope exactly when         *)
(* splitting it on the separator gives two parts, both non-empty; any      *)
(* other string, one of three or more parts included, fails with           *)
(* "Invalid encrypted message".                                            *)
(***************************************************************************)
C8_EnvelopeStringParsing ==
  result.op = "decryptEnvelope" =>
    ((Len(WireParts) = 2 /\ ~HasEmptyPart(WireParts)) <=> result.err # EnvelopeMalformed)

(***************************************************************************)
(* C9: a string with fewer parts than the operation requires, or with an   *)
(* empty part, makes eciesDecrypt and decryptEnvelope fail with the        *)
(* malformed-input error before any cryptographic call is made.            *)
(***************************************************************************)
C9_ValidationPrecedesCrypto ==
  /\ ( /\ result.op = "eciesDecrypt"
       /\ wire.fmt = "string"
       /\ (Len(WireParts) < 4 \/ HasEmptyPart(WireParts)) )
       => (result.err \in EciesMalformed /\ result.calls = <<>>)
  /\ ( /\ result.op = "decryptEnvelope"
       /\ (Len(WireParts) < 2 \/ HasEmptyPart(WireParts)) )
       => (result.err = EnvelopeMalformed /\ result.calls = <<>>)

(***************************************************************************)
(* C10: eciesEncrypt with "raw" returns the record of the four base64      *)
(* fields (ephemeral public key, nonce, ciphertext, mac); with "base64" or *)
(* no format it returns one string, and splitting that string on the       *)
(* separator gives exactly those four fields in that order.                *)
(***************************************************************************)
\* the four fields of the encrypt call recorded in sent, from its draws
SentFields ==
  LET ephemeralPrivateKey == ScalarBytes(sent.draws[1])
      eph    == CurveGetPublicKey(ephemeralPrivateKey).val
      nonce  == generateRandomBytes(sent.draws[2], NONCE_LEN)
      shared == deriveSharedSecret(ephemeralPrivateKey, ecKeys[sent.to].publicKey).val
      sealed == gcmEncrypt(deriveHKDFKey(shared, eph, INFO), nonce, sent.message).val
  IN  << encodeData(eph), encodeData(nonce),
         encodeData(SubSeq(sealed, 1, Len(sent.message))),
         encodeData(SubSeq(sealed, Len(sent.message) + 1, Len(sealed))) >>

C10_EciesWireLayout ==
  sent.scheme = "ecies" =>
    IF sent.returnFormat = "raw"
    THEN /\ sent.original.fmt = "raw"
         /\ << sent.original.rec.ephemeralPublicKey, sent.original.rec.nonce,
               sent.original.rec.ciphertext, sent.original.rec.mac >> = SentFields
    ELSE /\ sent.original.fmt = "string"
         /\ Split(sent.original.str, SEPARATOR) = SentFields

\* a non-empty message went out as one string of four parts
C10_StringOfFourParts ==
  /\ sent.scheme = "ecies"
  /\ sent.returnFormat = ""
  /\ sent.message # <<>>
  /\ sent.original.fmt = "string"
  /\ Len(Split(sent.original.str, SEPARATOR)) = 4

C12_SeparatorNotInParts ==
  ( /\ sent.scheme \in {"ecies", "envelope", "secretbox"}
    /\ tamper = "none"
    /\ result.op = "none"
    /\ wire.fmt = "string" ) =>
    /\ Len(WireParts) = IF sent.scheme = "ecies" THEN 4 ELSE 2
    /\ sent.scheme = "secretbox" =>
         IndexOf(bytesToBase64(generateRandomBytes(sent.draws[1], SECRET_BOX_NONCE_LEN),
                               sent.urlSafe),
                 SEPARATOR) = 0

(***************************************************************************)
(* The key operations on their own: key pairs are generated and shared     *)
(* secrets derived from them.                                              *)
(***************************************************************************)
NextKeys ==
  \/ GenerateECKeyPair
  \/ DeriveSharedSecret

SpecKeys == Init /\ [][NextKeys]_vars

(***************************************************************************)
(* C13: deriveSharedSecret(A.privateKey, B.publicKey) and                  *)
(* deriveSharedSecret(B.privateKey, A.publicKey) return the same secret,   *)
(* for all generated key pairs A and B, whether each key is handed over as *)
(* a byte array or as a base64 string.                                     *)
(***************************************************************************)
Mirrored(r1, r2) ==
  /\ r1.a = r2.b
  /\ r1.b = r2.a
  /\ (IF r1.encoding = "" THEN "bytes" ELSE r1.encoding)
       = (IF r2.encoding = "" THEN "bytes" ELSE r2.encoding)

C13_SharedSecretSymmetric ==
  \A i \in 1..Len(derived), j \in 1..Len(derived) :
    Mirrored(derived[i], derived[j]) =>
      /\ derived[i].err = ""
      /\ derived[j].err = ""
      /\ derived[i].val = derived[j].val

\* two distinct key pairs, one call with string keys and its mirror with
\* byte arrays, one secret
C13_MixedEncodingsAgree ==
  /\ Len(derived) = 2
  /\ Mirrored(derived[1], derived[2])
  /\ ecKeys[derived[1].a] # ecKeys[derived[1].b]
  /\ derived[1].privateKeyAs = "base64" /\ derived[1].publicKeyAs = "base64"
  /\ derived[2].privateKeyAs = "bytes" /\ derived[2].publicKeyAs = "bytes"
  /\ derived[1].err = ""
  /\ derived[1].val = derived[2].val

(***************************************************************************)
(* Two encrypt calls in a row to one public key.                           *)
(***************************************************************************)
NextTwice ==
  \/ GenerateECKeyPair
  \/ GenerateRSAKeyPair
  \/ EciesEncrypt
  \/ EncryptEnvelope
  \/ EciesEncryptAgain
  \/ EncryptEnvelopeAgain

SpecTwice == Init /\ [][NextTwice]_vars

(***************************************************************************)
(* C14: two encryptions of the same message under the same public key, by  *)
(* eciesEncrypt or by encryptEnvelope, in which the random generator       *)
(* returned new values (a new ephemeral key or nonce, a new AES key or     *)
(* nonce), give different outputs, and both outputs decrypt to the         *)
(* message.                                                                *)
(***************************************************************************)
\* the recipient's decrypt call on what an encrypt call returned
Opened(call) ==
  IF call.scheme = "ecies"
  THEN eciesDecrypt(ecKeys[call.to].privateKey, call.original)
  ELSE decryptEnvelope(rsaKeys[call.to].privateKey, call.original.str)

SameMessageTwice ==
  /\ earlier.scheme \in {"ecies", "envelope"}
  /\ sent.scheme = earlier.scheme
  /\ sent.to = earlier.to
  /\ sent.message = earlier.message
  /\ sent.returnFormat \in {"", "base64"}
  /\ earlier.returnFormat \in {"", "base64"}
  /\ sent.draws # earlier.draws

C14_FreshRandomness ==
  SameMessageTwice =>
    /\ sent.original # earlier.original
    /\ Opened(earlier).err = "" /\ Opened(earlier).val = sent.message
    /\ Opened(sent).err = "" /\ Opened(sent).val = sent.message

(***************************************************************************)
(* What an encrypt call put on the wire, and the secrets of that call.     *)
(***************************************************************************)
\* the decoded fields or parts of the value an encrypt call returned
SentFieldBytes ==
  IF sent.original.fmt = "raw"
  THEN { toBytes(sent.original.rec.ephemeralPublicKey), toBytes(sent.original.rec.nonce),
         toBytes(sent.original.rec.ciphertext), toBytes(sent.original.rec.mac) }
  ELSE LET parts == Split(sent.original.str, SEPARATOR)
       IN  { toBytes(parts[i]) : i \in 1..Len(parts) }

Contains(bytes, secret) ==
  \E i \in 0..(Len(bytes) - Len(secret)) : SubSeq(bytes, i + 1, i + Len(secret)) = secret

\* recipient's private key, ephemeral private key, shared secret, derived key
EciesSecrets ==
  LET ephemeralPrivateKey == ScalarBytes(sent.draws[1])
      eph    == CurveGetPublicKey(ephemeralPrivateKey).val
      shared == deriveSharedSecret(ephemeralPrivateKey, ecKeys[sent.to].publicKey).val
  IN  { ecKeys[sent.to].privateKey, ephemeralPrivateKey, shared,
        deriveHKDFKey(shared, eph, INFO) }

\* recipient's private key and the raw AES key of the call
EnvelopeSecrets == { rsaKeys[sent.to].privateKey, generateAESKey(sent.draws[1]) }

C16_EciesFieldSizes ==
  Untouched("ecies") =>
    LET f == EciesFields(sent.original)
    IN  /\ Len(toBytes(f.ciphertext)) = Len(sent.message)
        /\ Len(toBytes(f.mac)) = 16
        /\ Len(toBytes(f.nonce)) = 12
        /\ f.ephemeralPublicKey # <<>>
        /\ f.nonce # <<>>
        /\ f.mac # <<>>
        /\ (f.ciphertext = <<>>) <=> (sent.message = <<>>)

\* the empty message went out with an empty body and the three other fields
C16_EmptyBodyOnly ==
  /\ Untouched("ecies")
  /\ sent.message = <<>>
  /\ sent.original.fmt = "string"
  /\ EciesFields(sent.original).ciphertext = <<>>
  /\ Len(toBytes(EciesFields(sent.original).mac)) = TAG_LEN
  /\ Len(toBytes(EciesFields(sent.original).ephemeralPublicKey)) = POINT_LEN

(***************************************************************************)
(* C17: whatever the length of the message, what encryptEnvelope hands to  *)
(* rsaEncrypt is exactly the 32 raw bytes of the AES key generated in that *)
(* call, and the message is encrypted by AES-GCM under that key only.      *)
(***************************************************************************)
C17_OnlyKeyThroughRsa ==
  Untouched("envelope") =>
    LET parts   == Split(sent.original.str, SEPARATOR)
        wrapped == rsaDecrypt(rsaKeys[sent.to].privateKey, toBytes(parts[1]))
        aesKey  == generateAESKey(sent.draws[1])
    IN  /\ wrapped.err = ""
        /\ wrapped.val = aesKey
        /\ Len(wrapped.val) = 32
        /\ Len(toBytes(parts[1])) = DEFAULT_NONCE_LENGTH + MODULUS_BYTES
        /\ parts[2] = aesEncrypt(aesKey, sent.message, sent.draws[2])
        /\ Len(toBytes(parts[2])) = DEFAULT_NONCE_LENGTH + Len(sent.message) + TAG_LEN

\* a message no RSA block could hold went out behind a 32-byte wrapped key
C17_LongMessageKeyOnly ==
  /\ Untouched("envelope")
  /\ sent.message = LongMessage
  /\ Len(rsaDecrypt(rsaKeys[sent.to].privateKey,
                    toBytes(Split(sent.original.str, SEPARATOR)[1])).val) = AES_KEY_BYTES

(***************************************************************************)
(* Envelope calls running at once.                                         *)
(***************************************************************************)
NextConcurrent ==
  \/ GenerateRSAKeyPair
  \/ StartEncryptEnvelope
  \/ EnvelopeGenerateKey
  \/ EnvelopeEncryptMessage
  \/ EnvelopeExportKey
  \/ EnvelopeWrapKey
  \/ StartDecryptEnvelope
  \/ EnvelopeUnwrapKey
  \/ EnvelopeImportKey
  \/ EnvelopeDecryptMessage

SpecConcurrent == Init /\ [][NextConcurrent]_vars

(***************************************************************************)
(* C18: however encryptEnvelope and decryptEnvelope calls interleave at    *)
(* their awaits, each call returns what it returns when run alone: an      *)
(* envelope is the one the call's own key, message and random draws give   *)
(* and decrypts to the call's own message, a decrypt call's outcome is     *)
(* that of decryptEnvelope on its own arguments; and between its awaits a  *)
(* call holds what its own arguments and draws give, whatever the other    *)
(* calls did meanwhile.                                                    *)
(***************************************************************************)
\* the constants of a call under way are those of its own run so far
OwnLocals(c) ==
  IF c.op = "encryptEnvelope"
  THEN /\ c.pc >= 1 => c.locals.aesKey = generateAESKey(c.draws[1])
       /\ c.pc >= 2 => c.locals.encryptedMessage =
                          aesEncrypt(generateAESKey(c.draws[1]), c.message, c.draws[2])
       /\ c.pc >= 3 => c.locals.aesKeyBytes = generateAESKey(c.draws[1])
  ELSE IF c.op = "decryptEnvelope"
  THEN LET parts    == Split(c.input, SEPARATOR)
           keyBytes == rsaDecrypt(rsaKeys[c.key].privateKey, toBytes(parts[1]))
       IN  /\ c.locals.encryptedAesKey = parts[1]
           /\ Len(parts) >= 2 => c.locals.encryptedMessage = parts[2]
           /\ c.pc >= 1 => c.locals.aesKeyBytes = keyBytes.val
           /\ c.pc >= 2 => c.locals.aesKey = keyBytes.val
  ELSE c = IdleProc

AsRunAlone(c) ==
  IF c.op = "encryptEnvelope"
  THEN LET alone == encryptEnvelope(rsaKeys[c.key].publicKey, c.message,
                                    c.draws[1], c.draws[2], c.draws[3], c.draws[4])
           back  == decryptEnvelope(rsaKeys[c.key].privateKey, c.val)
       IN  /\ c.err = alone.err
           /\ c.val = alone.val.str
           /\ back.err = "" /\ back.val = c.message
  ELSE LET alone == decryptEnvelope(rsaKeys[c.key].privateKey, c.input)
       IN  c.err = alone.err /\ c.val = alone.val

C18_CallsIndependent ==
  \A p \in Procs :
    /\ OwnLocals(procs[p])
    /\ procs[p].done => AsRunAlone(procs[p])

\* an encrypt call and a decrypt call are both between two of their awaits,
\* each holding an AES key of its own
C18_CallsInterleaved ==
  /\ procs[1].op = "encryptEnvelope" /\ ~procs[1].done /\ procs[1].pc = 3
  /\ procs[2].op = "decryptEnvelope" /\ ~procs[2].done /\ procs[2].pc = 2
  /\ procs[1].message # <<>>
  /\ procs[1].locals.aesKey # procs[2].locals.aesKey

(***************************************************************************)
(* The AES-GCM helpers.                                                    *)
(***************************************************************************)
NextAes ==
  \/ GenerateAESKey
  \/ ImportAESKey
  \/ AesEncrypt
  \/ AesEncryptHelper
  \/ ChangeAesByte
  \/ TruncateAesTail
  \/ AesDecrypt

SpecAes == Init /\ [][NextAes]_vars

(***************************************************************************)
(* C19: aesDecrypt(k, aesEncrypt(k, M)) returns exactly M, the empty       *)
(* message included, for a key k that was generated or re-imported from    *)
(* its exported bytes, whether aesEncrypt returned bytes (the default) or  *)
(* base64 that the caller decodes with toBytes.                            *)
(***************************************************************************)
C19_AesRoundTrip ==
  /\ Untouched("aes") =>
       /\ wire.fmt = (IF sent.returnFormat = "base64" THEN "string" ELSE "bytes")
       /\ Len(AesWireBytes(wire)) = DEFAULT_NONCE_LENGTH + Len(sent.message) + TAG_LEN
  /\ ( /\ sent.scheme = "aes"
       /\ tamper = "none"
       /\ result.op = "aesDecrypt"
       /\ aesKeys[result.key].origin = aesKeys[sent.to].origin )
     => Returned(sent.message)

\* the empty message, returned as base64, came back under a re-imported key
C19_EmptyMessageImportedKey ==
  /\ sent.scheme = "aes" /\ tamper = "none" /\ result.op = "aesDecrypt"
  /\ sent.message = <<>>
  /\ sent.returnFormat = "base64"
  /\ result.key # sent.to
  /\ aesKeys[result.key].origin = aesKeys[sent.to].origin
  /\ Returned(<<>>)

(***************************************************************************)
(* C20: aesDecrypt(k, c) throws and returns no plaintext when c is an      *)
(* aesEncrypt output with one of its bytes changed, when c is an           *)
(* aesEncrypt output cut short at its tail, and when c was made under a    *)
(* key other than k.                                                       *)
(***************************************************************************)
C20_AesRejects ==
  ( /\ sent.scheme = "aes"
    /\ result.op = "aesDecrypt"
    /\ \/ tamper \in {"byte", "tail"}
       \/ aesKeys[result.key].key # aesKeys[sent.to].key )
  => /\ result.err = "OperationError"
     /\ result.val = <<>>

\* an unaltered aesEncrypt output of a non-empty message was refused under
\* another generated key
C20_OtherAesKeyRefused ==
  /\ sent.scheme = "aes" /\ tamper = "none" /\ result.op = "aesDecrypt"
  /\ sent.message # <<>>
  /\ aesKeys[result.key].key # aesKeys[sent.to].key
  /\ result.err = "OperationError"
  /\ result.val = <<>>

(***************************************************************************)
(* rsaEncrypt and rsaDecrypt used directly.                                *)
(***************************************************************************)
NextRsa ==
  \/ GenerateRSAKeyPair
  \/ RsaEncrypt
  \/ ReplaceRsaPrefix
  \/ ChangeRsaBlock
  \/ RsaDecrypt

SpecRsa == Init /\ [][NextRsa]_vars

(***************************************************************************)
(* C21: rsaDecrypt(K.privateKey, rsaEncrypt(K.publicKey, M)) returns       *)
(* exactly M for every message M no longer than the RSA-OAEP capacity of   *)
(* K, the empty message included, whether rsaEncrypt returned bytes or     *)
(* base64 (the default) that the caller decodes with toBytes.              *)
(***************************************************************************)
C21_RsaRoundTrip ==
  /\ (Untouched("rsa") /\ Len(sent.message) <= RsaCapacity) =>
       wire.fmt = (IF sent.returnFormat = "bytes" THEN "bytes" ELSE "string")
  /\ ( /\ sent.scheme = "rsa"
       /\ tamper = "none"
       /\ result.op = "rsaDecrypt"
       /\ rsaKeys[result.key] = rsaKeys[sent.to] )
     => Returned(sent.message)

\* the empty message, returned in the default format, came back
C21_EmptyMessageDefaultFormat ==
  /\ sent.scheme = "rsa" /\ tamper = "none" /\ result.op = "rsaDecrypt"
  /\ sent.message = <<>>
  /\ sent.returnFormat = ""
  /\ wire.fmt = "string"
  /\ Returned(<<>>)

(***************************************************************************)
(* C22: rsaEncrypt throws for every message longer than                    *)
(* modulus bytes - 2 * 32 - 2 bytes and returns nothing for it, in         *)
(* particular no sequence of blocks; for every message of at most that     *)
(* length it returns the nonce followed by one RSA-OAEP block.             *)
(***************************************************************************)
C22_RsaCapacityLimit ==
  (sent.scheme = "rsa" /\ tamper = "none") =>
    IF Len(sent.message) > MODULUS_BYTES - 2 * 32 - 2
    THEN /\ sent.original = NoWire
         /\ wire = NoWire
         /\ result.op = "rsaEncrypt"
         /\ Failed
    ELSE /\ sent.original.fmt # "none"
         /\ result.op # "rsaEncrypt"
         /\ Len(AesWireBytes(sent.original)) = DEFAULT_NONCE_LENGTH + MODULUS_BYTES

\* a message one byte longer than the capacity was refused
C22_OneByteTooLong ==
  /\ sent.scheme = "rsa"
  /\ Len(sent.message) = MODULUS_BYTES - 2 * 32 - 1
  /\ result.op = "rsaEncrypt"
  /\ result.err = "OperationError"
  /\ wire = NoWire

(***************************************************************************)
(* C23: secretBoxDecrypt(k, secretBoxEncrypt(k, M, urlSafe)) returns       *)
(* exactly M for every 32-byte key k, every message M, the empty one       *)
(* included, and both values of urlSafe.                                   *)
(***************************************************************************)
C23_SecretBoxRoundTrip ==
  Honest("secretbox", "secretBoxDecrypt") => Returned(sent.message)

(***************************************************************************)
(* The secret box with keys of any length and inputs of any shape.         *)
(***************************************************************************)
NextBox ==
  \/ GenerateSecretBoxKey
  \/ TakeKeyOfLength
  \/ SecretBoxEncryptWith
  \/ BuildString
  \/ ShortenNonce
  \/ AppendPart
  \/ SecretBoxDecrypt

SpecBox == Init /\ [][NextBox]_vars

\* what secretBoxDecrypt was given, looked at check by check
BoxFormatOk ==
  /\ Len(WireParts) >= 2
  /\ WireParts[1] # <<>>
  /\ WireParts[2] # <<>>

BoxKeyOk == Len(boxKeys[result.key]) = 32

BoxNonceOk == Len(toBytes(WireParts[1])) = 24

BoxOpened == secretboxOpen(toBytes(WireParts[2]), toBytes(WireParts[1]), boxKeys[result.key])

(***************************************************************************)
(* C24: secretBoxEncrypt throws "Invalid key length" exactly when the key  *)
(* is not 32 bytes long.  secretBoxDecrypt returns a plaintext only when   *)
(* the input has a non-empty nonce part and a non-empty ciphertext part,   *)
(* the key is 32 bytes long, the decoded nonce is 24 bytes long and the    *)
(* authenticator verifies; otherwise it throws, with "Invalid encrypted    *)
(* message", "Invalid key length", "Invalid nonce length" or "Could not    *)
(* decrypt message", an error whose condition failed.                      *)
(***************************************************************************)
C24_SecretBoxErrors ==
  /\ (sent.scheme = "secretbox" /\ result.op \in {"none", "secretBoxEncrypt"}) =>
       IF Len(boxKeys[sent.to]) # 32
       THEN /\ result.op = "secretBoxEncrypt"
            /\ result.err = "Invalid key length"
            /\ result.val = <<>>
            /\ sent.original = NoWire
       ELSE /\ result.op = "none"
            /\ sent.original.fmt = "string"
  /\ result.op = "secretBoxDecrypt" =>
       IF result.err = ""
       THEN /\ BoxFormatOk /\ BoxKeyOk /\ BoxNonceOk
            /\ BoxOpened.err = ""
            /\ result.val = BoxOpened.val
       ELSE /\ result.val = <<>>
            /\ \/ result.err = "Invalid encrypted message" /\ ~BoxFormatOk
               \/ result.err = "Invalid key length" /\ ~BoxKeyOk
               \/ result.err = "Invalid nonce length" /\ BoxFormatOk /\ ~BoxNonceOk
               \/ /\ result.err = "Could not decrypt message"
                  /\ BoxFormatOk /\ BoxKeyOk /\ BoxNonceOk
                  /\ BoxOpened.err # ""

\* a 16-byte key was refused by secretBoxDecrypt on what secretBoxEncrypt
\* returned under a 32-byte key
C24_ShortKeyRefused ==
  /\ sent.scheme = "secretbox" /\ tamper = "none"
  /\ result.op = "secretBoxDecrypt"
  /\ Len(boxKeys[sent.to]) = 32
  /\ Len(boxKeys[result.key]) = 16
  /\ result.err = "Invalid key length"
  /\ result.val = <<>>

(***************************************************************************)
(* C30: secretBoxDecrypt checks the format, then the key length, then the  *)
(* nonce length, then the authenticator, and reports the first check that  *)
(* fails: an input without two non-empty parts gives "Invalid encrypted    *)
(* message" even under a key of the wrong length, a key of the wrong       *)
(* length gives "Invalid key length" on a well-formed input even when the  *)
(* nonce length is wrong too, and secretbox.open is called only after the  *)
(* three checks passed.                                                    *)
(***************************************************************************)
C30_SecretBoxCheckOrder ==
  result.op = "secretBoxDecrypt" =>
    /\ result.err =
         IF ~BoxFormatOk THEN "Invalid encrypted message"
         ELSE IF ~BoxKeyOk THEN "Invalid key length"
         ELSE IF ~BoxNonceOk THEN "Invalid nonce length"
         ELSE IF BoxOpened.err # "" THEN "Could not decrypt message"
         ELSE ""
    /\ result.calls =
         IF BoxFormatOk /\ BoxKeyOk /\ BoxNonceOk THEN << "secretbox.open" >> ELSE <<>>

\* a malformed input under a key of the wrong length was refused for its
\* format
C30_FormatBeforeKey ==
  /\ result.op = "secretBoxDecrypt"
  /\ ~BoxFormatOk
  /\ ~BoxKeyOk
  /\ result.err = "Invalid encrypted message"
  /\ result.calls = <<>>

(***************************************************************************)
(* deriveHKDFKey called again and again.                                   *)
(***************************************************************************)
NextHkdf == DeriveHKDFKey

SpecHkdf == Init /\ [][NextHkdf]_vars

\* the bytes of a key as a call returned it
DerivedBytes(r) == IF r.val.kind = "string" THEN toBytes(r.val.str) ELSE r.val.bytes

NextHex ==
  \/ GenerateECKeyPair
  \/ EciesHexEncrypt
  \/ ChangeHexField
  \/ EciesHexDecrypt

SpecHex == Init /\ [][NextHex]_vars

\* the promise resolved to null
ResolvedNull ==
  /\ result.err = ""
  /\ result.val = <<>>
  /\ result.calls # <<>>
  /\ result.calls[Len(result.calls)] = "console.error"

(***************************************************************************)
(* C26: decrypt(recipientPrivateKeyHex, encryptedData) resolves to the     *)
(* message that was encrypted when the private key matches the public key  *)
(* the data was encrypted for and the data is unchanged; when the tag does *)
(* not verify, as under any other private key and after a change of the    *)
(* nonce, the ciphertext or the mac, it resolves to null: it neither       *)
(* rejects nor returns any plaintext byte.                                 *)
(***************************************************************************)
C26_HexDecryptSoftFailure ==
  (sent.scheme = "hex" /\ result.op = "decrypt") =>
    IF tamper = "none" /\ ecKeys[result.key] = ecKeys[sent.to]
    THEN Returned(sent.message) /\ ~ResolvedNull
    ELSE ResolvedNull

\* the private key of another pair on unchanged data gave null
C26_OtherKeyGaveNull ==
  /\ sent.scheme = "hex" /\ result.op = "decrypt"
  /\ tamper = "none"
  /\ sent.message # <<>>
  /\ ecKeys[result.key] # ecKeys[sent.to]
  /\ ResolvedNull

(***************************************************************************)
(* ECIES values with the ephemeral public key or the nonce replaced.       *)
(***************************************************************************)
NextBinding ==
  \/ GenerateECKeyPair
  \/ EciesEncrypt
  \/ ReplaceEphemeralKey
  \/ ChangeNonce
  \/ ReencodeField
  \/ EciesDecrypt

SpecBinding == Init /\ [][NextBinding]_vars

(***************************************************************************)
(* C27: once the ephemeralPublicKey field of an eciesEncrypt output for    *)
(* key pair K is replaced by any other value, a point of the curve or not, *)
(* or its nonce field is changed, eciesDecrypt with the private key of K   *)
(* fails and returns no plaintext.                                         *)
(***************************************************************************)
C27_BoundToEphemeralKeyAndNonce ==
  ( /\ sent.scheme = "ecies"
    /\ tamper \in {"ephemeral", "nonce", "reencoded"}
    /\ wire # sent.original
    /\ result.op = "eciesDecrypt"
    /\ result.key = sent.to )
  => Failed

(***************************************************************************)
(* C28: aesEncrypt returns the 12-byte nonce followed by the AES-GCM       *)
(* output, which is len(M) ciphertext bytes followed by the 16-byte tag:   *)
(* len(M) + 28 bytes in all.  aesDecrypt takes the first 12 bytes of what  *)
(* it is given for the nonce and the rest for ciphertext and tag.          *)
(***************************************************************************)
C28_AesFraming ==
  /\ Untouched("aes") =>
       LET c      == AesWireBytes(wire)
           nonce  == generateRandomBytes(sent.draws[1], 12)
           sealed == gcmEncrypt(aesKeys[sent.to].key, nonce, sent.message).val
       IN  /\ Len(c) = Len(sent.message) + 28
           /\ SubSeq(c, 1, 12) = nonce
           /\ SubSeq(c, 13, Len(c)) = sealed
           /\ Len(sealed) = Len(sent.message) + 16
           /\ SubSeq(sealed, Len(sent.message) + 1, Len(sealed))
                = GcmTag(aesKeys[sent.to].key, nonce, SubSeq(sealed, 1, Len(sent.message)))
  /\ (sent.scheme = "aes" /\ result.op = "aesDecrypt") =>
       LET c      == AesWireBytes(wire)
           n      == IF Len(c) < 12 THEN Len(c) ELSE 12
           opened == gcmDecrypt(aesKeys[result.key].key, SubSeq(c, 1, n),
                                SubSeq(c, n + 1, Len(c)))
       IN  IF opened.err = "" THEN Returned(opened.val) ELSE Failed

\* what aesEncrypt returned for a two-byte message, 30 bytes, was opened
C28_ThirtyBytesOpened ==
  /\ sent.scheme = "aes" /\ tamper = "none" /\ result.op = "aesDecrypt"
  /\ Len(sent.message) = 2
  /\ Len(AesWireBytes(wire)) = 30
  /\ Returned(sent.message)

(***************************************************************************)
(* C29: an rsaEncrypt output is a 12-byte random nonce followed by the     *)
(* RSA-OAEP ciphertext, and rsaDecrypt goes by the bytes behind the first  *)
(* 12 alone: with the first 12 bytes replaced by any others the output     *)
(* still decrypts to the message, with any byte behind them changed        *)
(* rsaDecrypt fails.                                                       *)
(***************************************************************************)
C29_RsaNoncePrefixIsFraming ==
  /\ (Untouched("rsa") /\ wire.fmt # "none") =>
       LET c == AesWireBytes(wire)
       IN  /\ Len(c) = 12 + MODULUS_BYTES
           /\ SubSeq(c, 1, 12) = generateRandomBytes(sent.draws[1], 12)
           /\ SubSeq(c, 13, Len(c))
                = rsaOaepEncrypt(toRSAKey(rsaKeys[sent.to].publicKey, "spki").val,
                                 sent.message, sent.draws[2]).val
  /\ ( /\ sent.scheme = "rsa"
       /\ tamper = "prefix"
       /\ result.op = "rsaDecrypt"
       /\ rsaKeys[result.key] = rsaKeys[sent.to] )
     => /\ SubSeq(AesWireBytes(wire), 1, 12) # SubSeq(AesWireBytes(sent.original), 1, 12)
        /\ Returned(sent.message)
  /\ (sent.scheme = "rsa" /\ tamper = "block" /\ result.op = "rsaDecrypt")
     => Failed

\* a non-empty message came back although the first 12 bytes were those of
\* another draw
C29_OtherPrefixSameMessage ==
  /\ sent.scheme = "rsa" /\ tamper = "prefix" /\ result.op = "rsaDecrypt"
  /\ sent.message # <<>>
  /\ \A i \in 1..12 : AesWireBytes(wire)[i] # AesWireBytes(sent.original)[i]
  /\ Returned(sent.message)

=============================================================================
